---- MODULE Spec2Model ----
(***************************************************************************)
(* Vertibird: a control plane that drives QEMU virtual machines as managed *)
(* subprocesses.  The module models one VM record of the store, the live   *)
(* access object (VertiVMLive) that operates on it, its display session    *)
(* (VMDisplay), and the part of the operating system the code talks to:    *)
(* the process table, the file system and the TCP ports.                   *)
(*                                                                         *)
(* Free-form strings are sequences of one-character strings, so that the   *)
(* character checks of the code (__argescape, shlex.quote, os.path) are    *)
(* computed, not assumed.  A handler of the code is an operator from a     *)
(* world (record, processes, files, display, outcome of the call) to the   *)
(* SET of worlds it can end in: the choices are the environment's (what a  *)
(* socket probe finds, whether a handshake succeeds, when a process dies). *)
(***************************************************************************)
EXTENDS Integers, Sequences, FiniteSets, TLC

VARIABLES
    rec,      \* the VertiVM row of the record store (committed view)
    procs,    \* the OS process table: pid -> status
    files,    \* the paths that are files (or fifos) on the file system
    disp,     \* the VMDisplay object of the live handle
    out,      \* what the last call did: operation, exception, launch, signals
    audio,    \* the buffer of an AudioOutput of the display: received chunks
    store,    \* the ids of the rows of the record store
    thr       \* the threads that are inside an operation: where each is

vars == <<rec, procs, files, disp, out, audio, store, thr>>

-----------------------------------------------------------------------------
(* Bounds of the model *)

\* process ids the OS hands out: 1..MaxPid
MaxPid == 2
\* TCP ports the OS hands out: FirstPort..(FirstPort + MaxPort - 1)
FirstPort == 5901
MaxPort == 3
\* handshake attempts followed inside one display connect()
MaxConnectTries == 1
\* os.cpu_count() of the host
HostCpus == 2

Pids == 1..MaxPid
Ports == FirstPort..(FirstPort + MaxPort - 1)

\* Python's None for a string-valued field, and for the pid
NoneS == <<"None">>
NoPid == 0

-----------------------------------------------------------------------------
(* Strings *)

LowerCase ==
    {"a","b","c","d","e","f","g","h","i","j","k","l","m",
     "n","o","p","q","r","s","t","u","v","w","x","y","z"}
UpperCase ==
    {"A","B","C","D","E","F","G","H","I","J","K","L","M",
     "N","O","P","Q","R","S","T","U","V","W","X","Y","Z"}
Digits == {"0","1","2","3","4","5","6","7","8","9"}
\* the decimal digit of k
DigitChar(k) == <<"0","1","2","3","4","5","6","7","8","9">>[k + 1]

\* the deny-list of __argescape
ForbiddenChars ==
    {",", "=", "!", "?", "<", ">", "~", "#", "@", ":", ";", "$", "*",
     "(", ")", "[", "]", "{", "}", "&", "%", "\"", "'", "\\", "+"}

HasForbidden(i) == \E k \in 1..Len(i) : i[k] \in ForbiddenChars

\* shlex.quote: the characters that need no quoting, [\w@%+=:,./-]
ShlexSafeChars ==
    LowerCase \cup UpperCase \cup Digits
        \cup {"_", "@", "%", "+", "=", ":", ",", ".", "/", "-"}

RECURSIVE ReplaceQuote(_)
\* s.replace("'", "'\"'\"'")
ReplaceQuote(s) ==
    IF s = <<>> THEN <<>>
    ELSE (IF Head(s) = "'" THEN <<"'", "\"", "'", "\"", "'">> ELSE <<Head(s)>>)
             \o ReplaceQuote(Tail(s))

\* shlex.quote(s)
shlex_quote(s) ==
    IF s = <<>> THEN <<"'", "'">>
    ELSE IF \A k \in 1..Len(s) : s[k] \in ShlexSafeChars THEN s
    ELSE <<"'">> \o ReplaceQuote(s) \o <<"'">>

\* __argescape returning without the deny-list check (a mutation of the code)
argescape_unchecked(i) == [exc |-> "none", s |-> shlex_quote(i)]

\* __argescape(i): raises InvalidArgument naming the string, or returns
\* shlex.quote(i)
argescape(i) ==
    IF HasForbidden(i) THEN [exc |-> "InvalidArgument", s |-> i]
    ELSE [exc |-> "none", s |-> shlex_quote(i)]

\* os.getcwd() of the process that uses the library
Cwd == <<"/", "w">>

RECURSIVE SplitSlash(_, _)
\* p.split('/'), cur being the component read so far
SplitSlash(p, cur) ==
    IF p = <<>> THEN <<cur>>
    ELSE IF Head(p) = "/" THEN <<cur>> \o SplitSlash(Tail(p), <<>>)
    ELSE SplitSlash(Tail(p), Append(cur, Head(p)))

RECURSIVE NormComps(_, _)
\* the component loop of posixpath.normpath on an absolute path
NormComps(comps, acc) ==
    IF comps = <<>> THEN acc
    ELSE LET c == Head(comps) IN
         IF c = <<>> \/ c = <<".">> THEN NormComps(Tail(comps), acc)
         ELSE IF c = <<".", ".">>
              THEN NormComps(Tail(comps),
                             IF acc = <<>> THEN acc
                             ELSE SubSeq(acc, 1, Len(acc) - 1))
         ELSE NormComps(Tail(comps), Append(acc, c))

RECURSIVE JoinSlash(_)
JoinSlash(comps) ==
    IF comps = <<>> THEN <<>>
    ELSE <<"/">> \o Head(comps) \o JoinSlash(Tail(comps))

\* os.path.abspath(p) = normpath(join(cwd, p))
abspath(p) ==
    LET full == IF p # <<>> /\ Head(p) = "/" THEN p ELSE Cwd \o <<"/">> \o p
        two == Len(full) >= 2 /\ full[2] = "/"
                   /\ ~(Len(full) >= 3 /\ full[3] = "/")
        body == JoinSlash(NormComps(SplitSlash(full, <<>>), <<>>))
    IN IF body = <<>> THEN (IF two THEN <<"/", "/">> ELSE <<"/">>)
       ELSE (IF two THEN <<"/">> ELSE <<>>) \o body

-----------------------------------------------------------------------------
(* Device tables *)

(* QEMUDevices.vga: the keys of the table *)
QEMUDevices_vga ==
    {
    <<"n", "o", "n", "e">>,
    <<"s", "t", "d">>,
    <<"c", "i", "r", "r", "u", "s">>,
    <<"v", "m", "w", "a", "r", "e">>,
    <<"q", "x", "l">>,
    <<"v", "i", "r", "t", "i", "o">>
    }

(* QEMUDevices.machine: the keys of the table *)
QEMUDevices_machine ==
    {
    <<"p", "c">>,
    <<"q", "3", "5">>,
    <<"i", "s", "a", "p", "c">>
    }

(* QEMUDevices.sound: the keys of the table *)
QEMUDevices_sound ==
    {
    <<"a", "c", "9", "7">>,
    <<"h", "d", "a">>,
    <<"s", "b", "1", "6">>,
    <<"g", "u", "s">>,
    <<"a", "d", "l", "i", "b">>
    }

(* QEMUDevices.network: the keys of the table *)
QEMUDevices_network ==
    {
    <<"e", "1", "0", "0", "0">>,
    <<"e", "1", "0", "0", "0", "-", "8", "2", "5", "4", "4", "g", "c">>,
    <<"e", "1", "0", "0", "0", "-", "8", "2", "5", "4", "5", "e", "m">>,
    <<"e", "1", "0", "0", "0", "e">>,
    <<"i", "8", "2", "5", "5", "0">>,
    <<"i", "8", "2", "5", "5", "1">>,
    <<"i", "8", "2", "5", "5", "7", "a">>,
    <<"i", "8", "2", "5", "5", "7", "b">>,
    <<"i", "8", "2", "5", "5", "7", "c">>,
    <<"i", "8", "2", "5", "5", "8", "a">>,
    <<"i", "8", "2", "5", "5", "8", "b">>,
    <<"i", "8", "2", "5", "5", "9", "a">>,
    <<"i", "8", "2", "5", "5", "9", "b">>,
    <<"i", "8", "2", "5", "5", "9", "c">>,
    <<"i", "8", "2", "5", "5", "9", "e", "r">>,
    <<"i", "8", "2", "5", "6", "2">>,
    <<"i", "8", "2", "8", "0", "1">>,
    <<"n", "e", "2", "k", "_", "i", "s", "a">>,
    <<"n", "e", "2", "k", "_", "p", "c", "i">>,
    <<"p", "c", "n", "e", "t">>,
    <<"r", "t", "l", "8", "1", "3", "9">>,
    <<"t", "u", "l", "i", "p">>,
    <<"v", "i", "r", "t", "i", "o", "-", "n", "e", "t", "-", "p", "c", "i">>,
    <<"v", "i", "r", "t", "i", "o", "-", "n", "e", "t", "-", "p", "c", "i", "-", "n", "o", "n", "-", "t", "r", "a", "n", "s", "i", "t", "i", "o", "n", "a", "l">>,
    <<"v", "i", "r", "t", "i", "o", "-", "n", "e", "t", "-", "p", "c", "i", "-", "t", "r", "a", "n", "s", "i", "t", "i", "o", "n", "a", "l">>,
    <<"v", "m", "x", "n", "e", "t", "3">>
    }

(* QEMUDevices.scsi: the keys of the table *)
QEMUDevices_scsi ==
    {
    <<"l", "s", "i", "5", "3", "c", "8", "9", "5", "a">>,
    <<"a", "m", "5", "3", "c", "9", "7", "4">>,
    <<"d", "c", "3", "9", "0">>,
    <<"l", "s", "i", "5", "3", "c", "8", "1", "0">>,
    <<"m", "p", "t", "s", "a", "s", "1", "0", "6", "8">>,
    <<"m", "e", "g", "a", "s", "a", "s">>,
    <<"m", "e", "g", "a", "s", "a", "s", "-", "g", "e", "n", "2">>,
    <<"v", "i", "r", "t", "i", "o", "-", "s", "c", "s", "i", "-", "p", "c", "i">>,
    <<"v", "i", "r", "t", "i", "o", "-", "s", "c", "s", "i", "-", "p", "c", "i", "-", "n", "o", "n", "-", "t", "r", "a", "n", "s", "i", "t", "i", "o", "n", "a", "l">>,
    <<"v", "i", "r", "t", "i", "o", "-", "s", "c", "s", "i", "-", "p", "c", "i", "-", "t", "r", "a", "n", "s", "i", "t", "i", "o", "n", "a", "l">>
    }

(* QEMUDevices.rtc: the keys of the table *)
QEMUDevices_rtc ==
    {
    <<"u", "t", "c">>,
    <<"l", "o", "c", "a", "l", "t", "i", "m", "e">>
    }

(* QEMUDevices.cpu: the keys of the table *)
QEMUDevices_cpu ==
    {
    <<"b", "a", "s", "e">>,
    <<"h", "o", "s", "t">>,
    <<"m", "a", "x">>,
    <<"q", "e", "m", "u", "6", "4">>,
    <<"q", "e", "m", "u", "3", "2">>,
    <<"p", "h", "e", "n", "o", "m">>,
    <<"p", "e", "n", "t", "i", "u", "m", "3">>,
    <<"p", "e", "n", "t", "i", "u", "m", "2">>,
    <<"p", "e", "n", "t", "i", "u", "m">>,
    <<"n", "2", "7", "0">>,
    <<"k", "v", "m", "6", "4">>,
    <<"k", "v", "m", "3", "2">>,
    <<"c", "o", "r", "e", "d", "u", "o">>,
    <<"c", "o", "r", "e", "2", "d", "u", "o">>,
    <<"a", "t", "h", "l", "o", "n">>,
    <<"W", "e", "s", "t", "m", "e", "r", "e", "-", "I", "B", "R", "S">>,
    <<"W", "e", "s", "t", "m", "e", "r", "e">>,
    <<"S", "n", "o", "w", "r", "i", "d", "g", "e">>,
    <<"S", "a", "n", "d", "y", "B", "r", "i", "d", "g", "e">>,
    <<"S", "a", "n", "d", "y", "B", "r", "i", "d", "g", "e", "-", "I", "B", "R", "S">>,
    <<"P", "e", "n", "r", "y", "n">>,
    <<"O", "p", "t", "e", "r", "o", "n", "_", "G", "5">>,
    <<"O", "p", "t", "e", "r", "o", "n", "_", "G", "4">>,
    <<"O", "p", "t", "e", "r", "o", "n", "_", "G", "3">>,
    <<"O", "p", "t", "e", "r", "o", "n", "_", "G", "2">>,
    <<"O", "p", "t", "e", "r", "o", "n", "_", "G", "1">>,
    <<"N", "e", "h", "a", "l", "e", "m">>,
    <<"N", "e", "h", "a", "l", "e", "m", "-", "I", "B", "R", "S">>,
    <<"K", "n", "i", "g", "h", "t", "s", "M", "i", "l", "l">>,
    <<"I", "v", "y", "B", "r", "i", "d", "g", "e">>,
    <<"I", "v", "y", "B", "r", "i", "d", "g", "e", "-", "I", "B", "R", "S">>,
    <<"H", "a", "s", "w", "e", "l", "l">>,
    <<"H", "a", "s", "w", "e", "l", "l", "-", "I", "B", "R", "S">>,
    <<"H", "a", "s", "w", "e", "l", "l", "-", "n", "o", "T", "S", "X">>,
    <<"H", "a", "s", "w", "e", "l", "l", "-", "n", "o", "T", "S", "X", "-", "I", "B", "R", "S">>,
    <<"E", "P", "Y", "C">>,
    <<"E", "P", "Y", "C", "-", "I", "B", "P", "B">>,
    <<"D", "h", "y", "a", "n", "a">>,
    <<"D", "e", "n", "v", "e", "r", "t", "o", "n">>,
    <<"C", "o", "n", "r", "o", "e">>,
    <<"C", "a", "s", "c", "a", "d", "e", "l", "a", "k", "e", "-", "S", "e", "r", "v", "e", "r">>,
    <<"C", "a", "s", "c", "a", "d", "e", "l", "a", "k", "e", "-", "S", "e", "r", "v", "e", "r", "-", "n", "o", "T", "S", "X">>,
    <<"B", "r", "o", "a", "d", "w", "e", "l", "l">>,
    <<"B", "r", "o", "a", "d", "w", "e", "l", "l", "-", "n", "o", "T", "S", "X">>,
    <<"B", "r", "o", "a", "d", "w", "e", "l", "l", "-", "I", "B", "R", "S">>,
    <<"B", "r", "o", "a", "d", "w", "e", "l", "l", "-", "n", "o", "T", "S", "X", "-", "I", "B", "R", "S">>,
    <<"4", "8", "6">>
    }

(* QEMUDevices.storage: the keys of the table *)
QEMUDevices_storage ==
    {
    <<"a", "h", "c", "i">>,
    <<"i", "d", "e">>,
    <<"s", "c", "s", "i">>,
    <<"v", "i", "r", "t", "i", "o">>
    }

\* DISK_FORMAT
DISK_FORMAT == <<"q", "c", "o", "w", "2">>

-----------------------------------------------------------------------------
(* Port forwarding: validation and the rule id *)

\* the printable ASCII characters, from code 32 on (the grave accent, code 96,
\* is spelled out: it is no character of a TLA+ string)
AsciiPrintable ==
    <<" ", "!", "\"", "#", "$", "%", "&", "'", "(", ")", "*", "+", ",", "-",
      ".", "/", "0", "1", "2", "3", "4", "5", "6", "7", "8", "9", ":", ";",
      "<", "=", ">", "?", "@", "A", "B", "C", "D", "E", "F", "G", "H", "I",
      "J", "K", "L", "M", "N", "O", "P", "Q", "R", "S", "T", "U", "V", "W",
      "X", "Y", "Z", "[", "\\", "]", "^", "_", "GRAVE", "a", "b", "c", "d", "e",
      "f", "g", "h", "i", "j", "k", "l", "m", "n", "o", "p", "q", "r", "s",
      "t", "u", "v", "w", "x", "y", "z", "{", "|", "}", "~">>

\* ord(c)
Ord(c) == 31 + (CHOOSE k \in 1..Len(AsciiPrintable) : AsciiPrintable[k] = c)

\* str.lower() of one character
LowerChar(c) ==
    IF c \in UpperCase THEN AsciiPrintable[Ord(c) - 31 + 32] ELSE c
RECURSIVE lower(_)
lower(s) == IF s = <<>> THEN <<>> ELSE <<LowerChar(Head(s))>> \o lower(Tail(s))

\* 32-bit words as sequences of bits, least significant bit first
BitsOf(n, width) == [k \in 1..width |-> (n \div (2 ^ (k - 1))) % 2] \o <<>>
RECURSIVE BitsValue(_)
BitsValue(b) == IF b = <<>> THEN 0 ELSE Head(b) + 2 * BitsValue(Tail(b))
XorBits(a, b) == [k \in 1..Len(a) |-> (a[k] + b[k]) % 2] \o <<>>
Ones32 == [k \in 1..32 |-> 1] \o <<>>
\* the reflected CRC-32 polynomial 0xEDB88320, least significant bit first
CrcPoly ==
    <<0, 0, 0, 0, 0, 1, 0, 0, 1, 1, 0, 0, 0, 0, 0, 1,
      0, 0, 0, 1, 1, 1, 0, 1, 1, 0, 1, 1, 0, 1, 1, 1>>

\* one step of the bitwise CRC: crc = (crc >> 1) ^ (poly if crc & 1 else 0)
CrcStep(crc) ==
    [k \in 1..32 |->
        ((IF k = 32 THEN 0 ELSE crc[k + 1]) + crc[1] * CrcPoly[k]) % 2] \o <<>>

\* eight steps, one for each bit of a byte
CrcShift(crc) ==
    CrcStep(CrcStep(CrcStep(CrcStep(CrcStep(CrcStep(CrcStep(CrcStep(crc))))))))

\* zlib's table: entry b + 1 is the CRC register after the single byte b
CrcTable == [b \in 1..256 |-> CrcShift(BitsOf(b - 1, 8) \o BitsOf(0, 24))] \o <<>>

\* crc = table[(crc ^ byte) & 0xFF] ^ (crc >> 8)
CrcByte(crc, byte) ==
    LET entry == CrcTable[BitsValue(XorBits(SubSeq(crc, 1, 8), byte)) + 1]
    IN [k \in 1..32 |-> ((IF k > 24 THEN 0 ELSE crc[k + 8]) + entry[k]) % 2] \o <<>>

\* every intermediate word is computed in full before it is used
RECURSIVE CrcBytes(_, _)
CrcBytes(crc, s) ==
    IF s = <<>> THEN crc
    ELSE LET next == CrcByte(crc, BitsOf(Ord(Head(s)), 8))
         IN IF Len(next) = 32 THEN CrcBytes(next, Tail(s)) ELSE next

\* zlib.crc32(s.encode()) as 32 bits
crc32(s) == XorBits(CrcBytes(Ones32, s), Ones32)

RECURSIVE DecimalOfNat(_)
\* str(n) for a natural number below 2^31
DecimalOfNat(n) ==
    IF n < 10 THEN <<DigitChar(n)>>
    ELSE DecimalOfNat(n \div 10) \o <<DigitChar(n % 10)>>

RECURSIVE DecimalOfWord(_, _)
\* str(hi * 65536 + lo): long division by ten on the two half words
DecimalOfWord(hi, lo) ==
    IF hi = 0 THEN DecimalOfNat(lo)
    ELSE LET low == (hi % 10) * 65536 + lo
         IN DecimalOfWord(hi \div 10, low \div 10) \o <<DigitChar(low % 10)>>

\* str(zlib.crc32(s.encode()))
crc32_str(s) ==
    LET b == crc32(s)
    IN DecimalOfWord(BitsValue(SubSeq(b, 17, 32)), BitsValue(SubSeq(b, 1, 16)))

\* '-'.join(parts)
RECURSIVE JoinDash(_)
JoinDash(parts) ==
    IF Len(parts) = 0 THEN <<>>
    ELSE IF Len(parts) = 1 THEN parts[1]
    ELSE parts[1] \o <<"-">> \o JoinDash(Tail(parts))

\* the fingerprint of a forwarding tuple, lines 1238-1243
fwd_id_of(protocol, external_ip, external_port, internal_port) ==
    crc32_str(JoinDash(<<protocol, external_ip, external_port, internal_port>>))

\* s.strip() for blanks
RECURSIVE StripLeft(_)
StripLeft(s) == IF s # <<>> /\ Head(s) = " " THEN StripLeft(Tail(s)) ELSE s
RECURSIVE StripRight(_)
StripRight(s) ==
    IF s # <<>> /\ s[Len(s)] = " " THEN StripRight(SubSeq(s, 1, Len(s) - 1)) ELSE s

\* the digits of an int() literal: digits, single underscores between them
IsDigitRun(s) ==
    /\ s # <<>>
    /\ s[1] \in Digits /\ s[Len(s)] \in Digits
    /\ \A k \in 1..Len(s) : s[k] \in Digits \cup {"_"}
    /\ \A k \in 1..(Len(s) - 1) : ~(s[k] = "_" /\ s[k + 1] = "_")

RECURSIVE DigitsValue(_, _)
\* the value of a run of digits, capped at cap + 1 (the code only compares)
DigitsValue(s, cap) ==
    IF s = <<>> THEN 0
    ELSE LET c == s[Len(s)]
             rest == DigitsValue(SubSeq(s, 1, Len(s) - 1), cap)
         IN IF c = "_" THEN rest
            ELSE LET v == rest * 10 + (Ord(c) - 48)
                 IN IF v > cap THEN cap + 1 ELSE v

\* int(i) of the text of i: [ok, neg, abs], abs capped at 65536
int_of(i) ==
    LET t == StripRight(StripLeft(i))
        signed == t # <<>> /\ t[1] \in {"+", "-"}
        body == IF signed THEN Tail(t) ELSE t
    IN IF IsDigitRun(body)
       THEN [ok |-> TRUE, neg |-> signed /\ t[1] = "-",
             abs |-> DigitsValue(body, 65535)]
       ELSE [ok |-> FALSE, neg |-> FALSE, abs |-> 0]

\* __validate_port(i), i given by its text str(i)
validate_port(i) ==
    IF \E k \in 1..Len(i) : i[k] = "." THEN FALSE
    ELSE LET v == int_of(i)
         IN IF ~v.ok THEN FALSE
            ELSE IF ~v.neg /\ v.abs > 65535 THEN FALSE
            ELSE IF v.neg \/ v.abs < 1 THEN FALSE
            ELSE TRUE

RECURSIVE SplitOn(_, _, _)
\* s.split(sep)
SplitOn(s, sep, cur) ==
    IF s = <<>> THEN <<cur>>
    ELSE IF Head(s) = sep THEN <<cur>> \o SplitOn(Tail(s), sep, <<>>)
    ELSE SplitOn(Tail(s), sep, Append(cur, Head(s)))

\* one octet of an IPv4 literal: decimal digits, at most three, no leading
\* zero, at most 255
IsOctet(o) ==
    /\ Len(o) \in 1..3
    /\ \A k \in 1..Len(o) : o[k] \in Digits
    /\ (Len(o) > 1 => o[1] # "0")
    /\ DigitsValue(o, 255) <= 255

IsIPv4(i) ==
    LET parts == SplitOn(i, ".", <<>>)
    IN Len(parts) = 4 /\ \A k \in 1..4 : IsOctet(parts[k])

HexDigits == Digits \cup {"a","b","c","d","e","f","A","B","C","D","E","F"}
IsHextet(h) == Len(h) \in 1..4 /\ \A k \in 1..Len(h) : h[k] \in HexDigits

\* an IPv6 literal made of hexadecimal groups with at most one "::" (the
\* forms with an embedded IPv4 part or a scope id are left out)
IsIPv6(i) ==
    LET parts == SplitOn(i, ":", <<>>)
        n == Len(parts)
        E == {k \in 1..n : parts[k] = <<>>}
    IN /\ \A k \in (1..n) \ E : IsHextet(parts[k])
       /\ \/ E = {} /\ n = 8
          \/ /\ n >= 3
             /\ n - Cardinality(E) <= 7
             /\ \/ \E k \in 2..(n - 1) : E = {k}
                \/ E = {1, 2}
                \/ E = {n - 1, n}
                \/ n = 3 /\ E = {1, 2, 3}

\* __validate_ip(i): ipaddress.ip_address(i) parses
validate_ip(i) == IsIPv4(i) \/ IsIPv6(i)

-----------------------------------------------------------------------------
(* The record, the operating system, the outcome of a call *)

\* self.id: str(uuid.uuid4()), hexadecimal digits and hyphens
VmId == <<"6", "f", "1", "c", "-", "4", "e", "2", "a">>

\* the temporary names tempfile.mkstemp can hand out for one suffix
MaxTemp == 1
TempName(k, suffix) == <<"/", "t", "m", "p", "/", "t", "m", "p">> \o <<DigitChar(k)>> \o suffix

\* the column defaults of VertiVM
DefaultProperties ==
    [memory |-> 134217728, cores |-> 1, cpu |-> <<"h", "o", "s", "t">>, machine |-> <<"p", "c">>,
     vga |-> <<"s", "t", "d">>, sound |-> <<"h", "d", "a">>, bootorder |-> <<"c", "d", "n">>,
     network |-> <<"r", "t", "l", "8", "1", "3", "9">>, scsi |-> <<"l", "s", "i", "5", "3", "c", "8", "9", "5", "a">>, rtc |-> <<"u", "t", "c">>,
     floppy |-> NoneS, numa |-> FALSE]

\* a VertiVM row as Vertibird.create() commits it, with the given ports
VertiVM(ports) ==
    [ports |-> ports, log |-> NoneS, pid |-> NoPid, audiopipe |-> NoneS,
     audiothrd |-> FALSE, state |-> "offline",
     memory |-> DefaultProperties.memory, cores |-> DefaultProperties.cores,
     cpu |-> DefaultProperties.cpu, machine |-> DefaultProperties.machine,
     vga |-> DefaultProperties.vga, sound |-> DefaultProperties.sound,
     bootorder |-> DefaultProperties.bootorder,
     network |-> DefaultProperties.network, scsi |-> DefaultProperties.scsi,
     rtc |-> DefaultProperties.rtc, floppy |-> DefaultProperties.floppy,
     numa |-> DefaultProperties.numa,
     cdroms |-> <<>>, drives |-> <<>>, forwarding |-> <<>>]

\* Vertibird._new_ports: three ports, each the port the OS gave to a socket
\* bound to port 0 and closed again before the next one is asked for
new_ports ==
    {[vnc |-> a, monitor |-> b, audio |-> c] : a \in Ports, b \in Ports, c \in Ports}

\* the triples the model lets the allocator return: the ports in the order of
\* their numbers, and a triple in which a port released by one socket was
\* handed out again to the next
PortTriples ==
    {p \in new_ports : /\ p.vnc = FirstPort
                       /\ p.monitor = FirstPort + 1
                       /\ p.audio \in {p.monitor, p.monitor + 1}}

\* the threads of the program and where each of them is inside an operation
\* it has begun; relays counts the audio relay threads spawned since state
\* online was last committed, timedOut says whether VNC_TIMEOUT_SECS have
\* passed since the connect() in progress began
MaxThreads == 2
Threads == 1..MaxThreads
NoThreads ==
    [pc |-> [t \in Threads |-> "idle"], relays |-> 0, timedOut |-> FALSE,
     ftr |-> NoneS, session |-> NoPid, arg |-> <<>>]

\* the outcome of a call, before the call has done anything: the operation
\* and its arguments, the state the record was in (was) and what its pid
\* named (found) when the call was made, what the state probe at the head of
\* the operation reported (probed), the exception raised and
\* its message, the value returned, the argument vector and the pid of a
\* launch, the signals and monitor commands sent, what the port probes found,
\* the audio threads spawned
NoOutcome(op, arg) ==
    [op |-> op, arg |-> arg, was |-> "none", found |-> "none",
     probed |-> "none", exc |-> "none",
     msg |-> <<>>, value |-> <<>>, argv |-> <<>>, launched |-> NoPid,
     signals |-> {}, monitor |-> {}, probes |-> <<>>, spawned |-> 0,
     ret |-> "none", exited |-> "no", deleted |-> {}]

\* what the environment may do while a call runs: the port triples the
\* allocator may be given, and whether things may go wrong (the process
\* exiting on its own, a refused handshake, an unreachable monitor, a failed
\* launch, a log grown too large)
\* what the probes of the three recorded ports find, up to the first port
\* nothing listens on: here the first port is closed, or all three are open
AllProbes == {<<FALSE>>, <<TRUE, TRUE, TRUE>>}
Faulty ==
    [ports |-> PortTriples, probes |-> AllProbes, faults |-> TRUE,
     built |-> TRUE]
Quiet ==
    [ports |-> {p \in PortTriples : p.audio # p.monitor},
     probes |-> {<<FALSE>>}, faults |-> FALSE, built |-> TRUE]
\* the environment of VertiVMLive.__init__ while VMDisplay.__init__ runs:
\* self.display is not assigned yet
Constructing == [Faulty EXCEPT !.built = FALSE]

\* the world a call starts in
Call(op, arg, env) ==
    [rec |-> rec, procs |-> procs, files |-> files, disp |-> disp,
     out |-> [NoOutcome(op, arg) EXCEPT
                 !.was = rec.state,
                 !.found = IF rec.pid = NoPid THEN "other" ELSE procs[rec.pid]],
     env |-> env]

\* what a step of a call has committed and done is in world w
Commits(w) ==
    /\ rec' = w.rec
    /\ procs' = w.procs
    /\ files' = w.files
    /\ disp' = w.disp
    /\ out' = w.out
    /\ store' = store \ w.out.deleted
    /\ UNCHANGED audio

\* the call ends in world w
Returns(w) == Commits(w) /\ UNCHANGED thr

Raise(w, e) == [w EXCEPT !.out.exc = e]
RaiseMsg(w, e, m) == [w EXCEPT !.out.exc = e, !.out.msg = m]
Ok(w) == w.out.exc = "none"

\* sequencing: F continues every world of S in which nothing was raised
Then(S, F(_)) == UNION {IF Ok(w) THEN F(w) ELSE {w} : w \in S}

\* os.path.isfile(p)
isfile(w, p) == p \in w.files

\* the process a pid names: psutil.Process(None) is the calling process
\* itself, whose command line does not hold the VM's id
ProcStatus(w, pid) == IF pid = NoPid THEN "other" ELSE w.procs[pid]

\* the environment: the QEMU process of the record may exit at this point
\* (it stays in the process table as a zombie until it is reaped)
MayDie(w) ==
    {w} \cup
    (IF w.env.faults /\ ProcStatus(w, w.rec.pid) = "qemu"
     THEN {[w EXCEPT !.procs[w.rec.pid] = "zombie"]}
     ELSE {})

-----------------------------------------------------------------------------
(* VMDisplay *)

\* VMDisplay.disconnect leaving the input methods bound (a mutation of the
\* code)
disconnect_keeping_inputs(w) ==
    [w EXCEPT !.disp.client = FALSE, !.disp.connected = FALSE]

\* VMDisplay.disconnect
disconnect(w) ==
    [w EXCEPT !.disp = [client |-> FALSE, connected |-> FALSE, inputs |-> "noop"]]

-----------------------------------------------------------------------------
(* The state machine of VertiVMLive *)

\* __file_cleanup with the unlink left out (a mutation of the code)
file_cleanup_no_unlink(w) ==
    IF w.rec.audiopipe = NoneS THEN w
    ELSE [w EXCEPT !.rec.audiopipe = NoneS]

\* __file_cleanup: unlink the audio pipe; the path is cleared only when the
\* unlink succeeded (TypeError for None, FileNotFoundError are swallowed)
file_cleanup(w) ==
    IF w.rec.audiopipe = NoneS THEN w
    ELSE IF w.rec.audiopipe \in w.files
    THEN [w EXCEPT !.files = @ \ {w.rec.audiopipe}, !.rec.audiopipe = NoneS]
    ELSE w

\* __mark_offline: the display is disconnected unless the handle has none
\* yet (AttributeError, passed over)
mark_offline(w) ==
    LET marked == [file_cleanup(w) EXCEPT !.rec.audiothrd = FALSE,
                                          !.rec.pid = NoPid,
                                          !.rec.state = "offline"]
    IN IF w.env.built THEN disconnect(marked) ELSE marked

RECURSIVE connect(_, _)
RECURSIVE connect_loop(_, _, _)

\* _state_check trusting the recorded state (a mutation of the code)
state_check_trusting(w, vnc_connecting, fuel) ==
    IF w.rec.state # "offline" THEN {w} ELSE {mark_offline(w)}

\* the else branch of _state_check without the audio relay (a mutation of
\* the code)
state_check_alive_no_relay(w, vnc_connecting, fuel) ==
    IF ~vnc_connecting /\ ~w.disp.connected THEN connect(w, fuel) ELSE {w}

\* the else branch of _state_check: the process is alive
state_check_alive(w, vnc_connecting, fuel) ==
    LET S == IF ~vnc_connecting /\ ~w.disp.connected
             THEN connect(w, fuel) ELSE {w}
    IN {IF ~w1.rec.audiothrd
        THEN [w1 EXCEPT !.rec.audiothrd = TRUE, !.out.spawned = @ + 1]
        ELSE w1 : w1 \in S}

\* _state_check without the test of the command line (a mutation of the
\* code)
state_check_any_cmdline(w, vnc_connecting, fuel) ==
    IF w.rec.state # "offline" /\ ProcStatus(w, w.rec.pid) \in {"qemu", "other"}
    THEN state_check_alive(w, vnc_connecting, fuel)
    ELSE IF w.rec.state # "offline" /\ ProcStatus(w, w.rec.pid) = "zombie"
    THEN {mark_offline([w EXCEPT
              !.out.signals = @ \cup {<<w.rec.pid, "SIGKILL">>}])}
    ELSE {mark_offline(w)}

\* _state_check(vnc_connecting)
state_check(w, vnc_connecting, fuel) ==
    IF w.rec.state # "offline"
    THEN IF ProcStatus(w, w.rec.pid) = "qemu"
         THEN \* cmdline() held the id; the process may still turn into a
              \* zombie before status() is read, and is then killed
              state_check_alive(w, vnc_connecting, fuel)
              \cup (IF w.env.faults
                    THEN {mark_offline([w EXCEPT
                              !.procs[w.rec.pid] = "zombie",
                              !.out.signals = @ \cup {<<w.rec.pid, "SIGKILL">>}])}
                    ELSE {})
         ELSE \* no such process, a reused pid, or a zombie (whose command
              \* line is empty): NoSuchProcess
              {mark_offline(w)}
    ELSE {mark_offline(w)}

\* one pass of the body of connect()'s loop, the VM being online
connect_attempt(w, fuel) ==
    LET bound == [w EXCEPT !.disp.client = TRUE, !.disp.inputs = "client"]
    IN  \* the handshake and the forced capture went through
        {[bound EXCEPT !.disp.connected = TRUE]}
        \cup (IF w.env.faults
              THEN \* vncapi.connect raised, or refreshScreen raised
                   \* VNCDoException
                   {disconnect(w)}
                   \* refresh() caught a client error and disconnected:
                   \* capture() finds no client, calls connect() again and
                   \* returns the placeholder
                   \cup {[w2 EXCEPT !.disp.connected = TRUE] :
                            w2 \in connect(disconnect(bound), fuel - 1)}
              ELSE {})

\* the loop of connect(): timedOut says whether VNC_TIMEOUT_SECS have passed
\* since start_time
connect_loop(w, timedOut, fuel) ==
    IF ~(~w.disp.client \/ timedOut) THEN {w}
    ELSE UNION {
           IF w1.rec.state # "online" THEN {w1}
           ELSE IF fuel <= 0 THEN {}
           ELSE UNION {connect_loop(w2, t2, fuel - 1) :
                          w2 \in connect_attempt(w1, fuel),
                          t2 \in IF w.env.faults THEN {timedOut, TRUE}
                                 ELSE {timedOut}}
           : w1 \in UNION {state_check(w0, TRUE, fuel) : w0 \in MayDie(w)}}

\* VMDisplay.connect
connect(w, fuel) ==
    IF fuel < 0 THEN {} ELSE connect_loop(disconnect(w), FALSE, fuel)

\* state(): _state_check, then the recorded state
state(w) ==
    {[w1 EXCEPT !.out.ret = w1.rec.state] :
        w1 \in state_check(w, FALSE, MaxConnectTries)}

\* the self.state() an operation begins with
probe(w) == {[w1 EXCEPT !.out.probed = w1.rec.state] : w1 \in state(w)}

-----------------------------------------------------------------------------
(* start(): the argument vector *)

\* QEMU_VNC_ADDS
QEMU_VNC_ADDS == 5900

\* one element of the argument vector: the text of the code (t) with the
\* record's strings (a) and numbers (n) that str.format puts into it; the
\* random device id of a drive stays the placeholder {id} of the text
Arg(t, a, n) == [t |-> t, a |-> a, n |-> n]
Lit(t) == Arg(t, <<>>, <<>>)

\* the state of the compilation: what was raised, the vector so far, and the
\* IDE unit counter
Compiling(argv) == [exc |-> "none", msg |-> <<>>, argv |-> argv, strdevices |-> 0]
CRaise(c, e, m) == [c EXCEPT !.exc = e, !.msg = m]
CAdd(c, args) == [c EXCEPT !.argv = @ \o args]

RECURSIVE FwdStrings(_)
\* the four fields of each forwarding rule, in the order they are escaped
FwdStrings(fw) ==
    IF fw = <<>> THEN <<>>
    ELSE <<Head(fw).protocol, Head(fw).external_ip,
           Head(fw).external_port, Head(fw).internal_port>>
             \o FwdStrings(Tail(fw))

\* the strings the first list of start() escapes, in evaluation order
header_strings(r) ==
    <<VmId, r.bootorder, r.cpu, r.machine, r.rtc, r.vga, r.audiopipe, r.network>>
        \o FwdStrings(r.forwarding)

\* lines 840-907: the first list of arguments
compile_header(w) ==
    LET r == w.rec
        strs == header_strings(r)
        es == [k \in 1..Len(strs) |-> argescape(strs[k])]
        bad == {k \in 1..Len(strs) : es[k].exc # "none"}
        first == CHOOSE k \in bad : \A j \in bad : k <= j
    IN IF bad # {} THEN CRaise(Compiling(<<>>), es[first].exc, es[first].s)
       ELSE Compiling(<<
         Lit("qemu-kvm"),
         Lit("-uuid"), Arg("{0}", <<es[1].s>>, <<>>),
         Lit("-monitor"),
         Arg("telnet:127.0.0.1:{1},server,nowait", <<>>, <<r.ports.monitor>>),
         Lit("-nographic"), Lit("-serial"), Lit("none"),
         Lit("-vnc"),
         Arg("127.0.0.1:{1},share=force-shared", <<>>,
             <<r.ports.vnc - QEMU_VNC_ADDS>>),
         Lit("-m"), Arg("{0}B", <<>>, <<r.memory>>),
         Lit("-overcommit"), Lit("mem-lock=off"),
         Lit("-boot"), Arg("order={0},menu=on", <<es[2].s>>, <<>>),
         Lit("-cpu"), Arg("{0}", <<es[3].s>>, <<>>),
         Lit("-smp"), Arg("{0}", <<>>, <<r.cores>>),
         Lit("-machine"), Arg("type={0},accel=kvm", <<es[4].s>>, <<>>),
         Lit("-enable-kvm"),
         Lit("-sandbox"),
         Lit("on,obsolete=deny,elevateprivileges=deny,spawn=deny,resourcecontrol=deny"),
         Lit("-rtc"), Arg("base={0},clock=host,driftfix=slew", <<es[5].s>>, <<>>),
         Lit("-vga"), Arg("{0}", <<es[6].s>>, <<>>),
         Lit("-audiodev"), Arg("wav,path={0},id=audioout", <<es[7].s>>, <<>>),
         Lit("-device"), Arg("{0},netdev=net0", <<es[8].s>>, <<>>),
         Lit("-netdev"),
         Arg("user,id=net0[,hostfwd={0}:{1}:{2}-:{3}]*",
             [k \in 1..(Len(strs) - 8) |-> es[k + 8].s], <<>>)
       >>)

\* the machine section without the checks of an ISA-only machine (a
\* mutation of the code)
compile_machine_lenient(w, c) ==
    IF w.rec.machine # <<"i", "s", "a", "p", "c">>
    THEN CAdd(c, <<Lit("-device"), Lit("usb-tablet,id=input0")>>)
    ELSE c

\* lines 909-952: the devices of a standard machine, the checks of an
\* ISA-only one
compile_machine(w, c) ==
    LET r == w.rec IN
    IF r.machine # <<"i", "s", "a", "p", "c">>
    THEN IF r.machine \notin {<<"p", "c">>, <<"q", "3", "5">>} THEN CRaise(c, "KeyError", r.machine)
         ELSE LET e == argescape(r.scsi) IN
              IF e.exc # "none" THEN CRaise(c, e.exc, e.s)
              ELSE CAdd(c, <<
                Lit("-device"),
                Lit(IF r.machine = <<"p", "c">> THEN "piix3-usb-uhci,id=usb"
                    ELSE "ich9-usb-uhci1,id=usb"),
                Lit("-device"), Lit("usb-tablet,id=input0"),
                Lit("-device"), Arg("{0},id=scsi", <<e.s>>, <<>>),
                Lit("-device"),
                Lit(IF r.machine = <<"p", "c">> THEN "ahci,id=ahci" ELSE "ich9-ahci,id=ahci"),
                Lit("-object"), Lit("rng-random,id=rng0,filename=/dev/urandom"),
                Lit("-device"), Lit("virtio-rng-pci,rng=rng0")>>)
    ELSE IF r.sound \notin {<<"a", "d", "l", "i", "b">>, <<"s", "b", "1", "6">>, <<"g", "u", "s">>}
         THEN CRaise(c, "InvalidGenericDeviceType", r.sound)
    ELSE IF r.network \notin {<<"n", "e", "2", "k", "_", "i", "s", "a">>}
         THEN CRaise(c, "InvalidGenericDeviceType", r.network)
    ELSE IF r.vga \notin {<<"v", "g", "a">>, <<"c", "i", "r", "r", "u", "s">>}
         THEN CRaise(c, "InvalidGenericDeviceType", r.vga)
    ELSE IF r.cores > 1
         THEN CRaise(c, "InvalidGenericDeviceType", <<>>)
    ELSE c

\* lines 954-966: the floppy and the NUMA flag
compile_floppy(w, c) ==
    LET r == w.rec
        c1 == IF r.floppy # NoneS
              THEN IF ~isfile(w, r.floppy)
                   THEN CRaise(c, "LaunchDependencyMissing", r.floppy)
                   ELSE LET e == argescape(r.floppy) IN
                        IF e.exc # "none" THEN CRaise(c, e.exc, e.s)
                        ELSE CAdd(c, <<Lit("-fda"), Arg("{0}", <<e.s>>, <<>>)>>)
              ELSE c
    IN IF c1.exc = "none" /\ r.numa THEN CAdd(c1, <<Lit("-numa")>>) ELSE c1

\* lines 968-992: the sound device
compile_sound(w, c) ==
    LET r == w.rec IN
    IF r.sound \in {<<"a", "c", "9", "7">>, <<"a", "d", "l", "i", "b">>, <<"s", "b", "1", "6">>, <<"g", "u", "s">>}
    THEN CAdd(c, <<Lit("-device"),
                   Arg("{0},audiodev=audioout",
                       <<IF r.sound = <<"a", "c", "9", "7">> THEN <<"A", "C", "9", "7">> ELSE r.sound>>, <<>>)>>)
    ELSE IF r.sound = <<"h", "d", "a">>
    THEN IF r.machine \notin {<<"p", "c">>, <<"q", "3", "5">>} THEN CRaise(c, "KeyError", r.machine)
         ELSE CAdd(c, <<Lit("-device"),
                        Lit(IF r.machine = <<"p", "c">> THEN "intel-hda,id=hda"
                            ELSE "ich9-intel-hda,id=hda"),
                        Lit("-device"),
                        Lit("hda-output,id=hda-codec,audiodev=audioout")>>)
    ELSE CRaise(c, "InvalidGenericDeviceType", r.sound)

RECURSIVE compile_cdroms(_, _, _)
\* lines 996-1014: one IDE unit per CD-ROM, in the order of the list
compile_cdroms(w, c, cdroms) ==
    IF c.exc # "none" \/ cdroms = <<>> THEN c
    ELSE LET cdrom == Head(cdroms) IN
         IF ~isfile(w, cdrom)
         THEN CRaise(c, "LaunchDependencyMissing", cdrom)
         ELSE LET e == argescape(abspath(cdrom)) IN
              IF e.exc # "none" THEN CRaise(c, e.exc, e.s)
              ELSE compile_cdroms(w,
                     [CAdd(c, <<
                        Lit("-drive"),
                        Arg("id={id},file={1},if=none,media=cdrom", <<e.s>>, <<>>),
                        Lit("-device"),
                        Arg("ide-cd,drive={id},bus=ide.0,unit={1}", <<>>,
                            <<c.strdevices>>)>>)
                      EXCEPT !.strdevices = @ + 1],
                     Tail(cdroms))

\* the unit counter counting AHCI drives too (a mutation of the code)
drive_units_ide_ahci(dtype) == IF dtype \in {<<"i", "d", "e">>, <<"a", "h", "c", "i">>} THEN 1 ELSE 0

\* lines 1054-1055: the units a drive of this type adds to the IDE counter
drive_units(dtype) == IF dtype = <<"i", "d", "e">> THEN 1 ELSE 0

\* lines 1028-1066: the arguments of one drive whose file exists
compile_drive(w, c, drive) ==
    LET p == argescape(abspath(drive.path)) IN
    IF drive.type \in {<<"a", "h", "c", "i">>, <<"i", "d", "e">>, <<"s", "c", "s", "i">>}
    THEN IF p.exc # "none" THEN CRaise(c, p.exc, p.s)
         ELSE LET t == argescape(drive.type) IN
              IF t.exc # "none" THEN CRaise(c, t.exc, t.s)
              ELSE [CAdd(c, <<
                      Lit("-drive"),
                      Arg("id={id},file={1},if=none,format=qcow2", <<p.s>>, <<>>),
                      Lit("-device"),
                      Arg(IF drive.type = <<"a", "h", "c", "i">> THEN "ide-hd,drive={id},bus={1}.0"
                          ELSE IF drive.type = <<"i", "d", "e">>
                          THEN "ide-hd,drive={id},bus={1}.0,unit={2}"
                          ELSE "scsi-hd,drive={id},bus={1}.0",
                          <<t.s>>, <<c.strdevices>>)>>)
                    EXCEPT !.strdevices = @ + drive_units(drive.type)]
    ELSE IF drive.type = <<"v", "i", "r", "t", "i", "o">>
    THEN IF p.exc # "none" THEN CRaise(c, p.exc, p.s)
         ELSE CAdd(c, <<Lit("-drive"),
                        Arg("id={id},file={1},if=virtio,format=qcow2", <<p.s>>, <<>>)>>)
    ELSE CRaise(c, "InvalidGenericDeviceType", drive.type)

RECURSIVE compile_drives(_, _, _)
\* lines 1016-1072: the drives, in the order of the list
compile_drives(w, c, drives) ==
    IF c.exc # "none" \/ drives = <<>> THEN c
    ELSE LET drive == Head(drives) IN
         IF ~isfile(w, drive.path)
         THEN CRaise(c, "LaunchDependencyMissing", drive.path)
         ELSE IF w.rec.machine = <<"i", "s", "a", "p", "c">> /\ drive.type # <<"i", "d", "e">>
         THEN CRaise(c, "InvalidGenericDeviceType", drive.type)
         ELSE compile_drives(w, compile_drive(w, c, drive), Tail(drives))

\* lines 1074-1077: the cap on IDE units
compile_limit(c) ==
    IF c.strdevices > 2 THEN CRaise(c, "LimitReached", <<>>) ELSE c

CStep(c, F(_)) == IF c.exc # "none" THEN c ELSE F(c)

\* lines 840-1077: the argument vector of the record, or what was raised
arguments(w) ==
    LET c1 == compile_header(w)
        c2 == CStep(c1, LAMBDA c : compile_machine(w, c))
        c3 == CStep(c2, LAMBDA c : compile_floppy(w, c))
        c4 == CStep(c3, LAMBDA c : compile_sound(w, c))
        c5 == CStep(c4, LAMBDA c : compile_cdroms(w, c, w.rec.cdroms))
        c6 == CStep(c5, LAMBDA c : compile_drives(w, c, w.rec.drives))
    IN CStep(c6, LAMBDA c : compile_limit(c))

-----------------------------------------------------------------------------
(* start() and stop() *)

\* __get_temp(suffix): mkstemp creates a file under a name that is not in
\* use; which of the unused names it takes makes no difference to the code,
\* the model takes the first
get_temp(w, suffix) ==
    LET unused == {k \in 0..(MaxTemp - 1) : TempName(k, suffix) \notin w.files}
    IN {[w |-> [w EXCEPT !.files = @ \cup {TempName(k, suffix)}],
         name |-> TempName(k, suffix)] :
           k \in {j \in unused : \A i \in unused : j <= i}}

\* __randomize_ports: the ports are probed in the order vnc, monitor, audio;
\* the first probe whose connect fails replaces all three.  What a probe
\* finds is the environment's choice; out.probes keeps what was found.
randomize_ports(w) ==
    LET kept == [w EXCEPT !.out.probes = <<TRUE, TRUE, TRUE>>]
        rolled == {[w EXCEPT !.out.probes = pr, !.rec.ports = np] :
                      pr \in w.env.probes \ {<<TRUE, TRUE, TRUE>>},
                      np \in w.env.ports}
    IN (IF <<TRUE, TRUE, TRUE>> \in w.env.probes THEN {kept} ELSE {}) \cup rolled

\* lines 826-838: drop the stale audio pipe, make a fresh one
fresh_audiopipe(w) ==
    LET w1 == IF w.rec.audiopipe # NoneS
              THEN [w EXCEPT !.files = @ \ {w.rec.audiopipe}]
              ELSE w
    IN {[t.w EXCEPT !.rec.audiopipe = t.name] : t \in get_temp(w1, <<".", "p", "i", "p", "e">>)}

\* __get_fresh_log_file: whether the log has grown past MAX_LOG_SIZE is the
\* environment's choice
get_fresh_log_file(w) ==
    LET fresh(v) == {[t.w EXCEPT !.rec.log = t.name] : t \in get_temp(v, <<".", "d", "a", "t">>)}
    IN IF w.rec.log = NoneS THEN fresh(w)
       ELSE IF ~isfile(w, w.rec.log) THEN fresh(w)
       ELSE {w} \cup (IF w.env.faults
                      THEN fresh([w EXCEPT !.files = @ \ {w.rec.log}])
                      ELSE {})

\* subprocess.Popen(arguments): a new process under a pid that is not in use,
\* or OSError when the QEMU executable cannot be run
Popen(w, argv) ==
    LET free == {q \in Pids : w.procs[q] = "none"}
    IN (IF w.env.faults THEN {Raise(w, "OSError")} ELSE {}) \cup
       {[w EXCEPT !.procs[p] = "qemu", !.out.launched = p, !.out.argv = argv] :
           p \in {q \in free : \A q2 \in free : q <= q2}}

\* process.returncode: neither poll() nor wait() is ever called on the Popen
\* object, so the attribute keeps the None it was created with
returncode(w) == "None"

\* time.sleep(STATE_CHECK_NRLT_CLK_SECS) after the launch: the process may
\* exit meanwhile, with status zero or with another; out.exited keeps which
settle(w) ==
    {w} \cup
    (IF w.env.faults /\ ProcStatus(w, w.rec.pid) = "qemu"
     THEN {[w EXCEPT !.procs[w.rec.pid] = "zombie", !.out.exited = e] :
              e \in {"zero", "nonzero"}}
     ELSE {})

\* lines 1096-1100: pid and state online are committed
start_commit(w) ==
    [w EXCEPT !.rec.pid = w.out.launched, !.rec.state = "online"]

\* lines 1102-1113: probe, connect the display, wait the settle interval
\* and look at the return code
start_settled(w1) ==
    LET probed == state(w1)
        shown == UNION {connect(w2, MaxConnectTries) : w2 \in probed}
        slept == UNION {settle(w3) : w3 \in shown}
    IN UNION {IF returncode(w4) \notin {"None", "0"}
              THEN {Raise(w5, "VMLaunchException") : w5 \in state(w4)}
              ELSE {w4} : w4 \in slept}

\* lines 1096-1113
start_launched(w) == start_settled(start_commit(w))

\* lines 824-1094: ports, audio pipe, arguments, log file and the launch
start_popen(w) ==
    LET piped == UNION {fresh_audiopipe(w1) : w1 \in randomize_ports(w)}
        compiled(w2) ==
            LET c == arguments(w2) IN
            IF c.exc # "none" THEN {RaiseMsg(w2, c.exc, c.msg)}
            ELSE Then(get_fresh_log_file(w2), LAMBDA w3 : Popen(w3, c.argv))
    IN UNION {compiled(w2) : w2 \in piped}

\* the body of start() for a record found offline
start_offline(w) == Then(start_popen(w), start_launched)

\* start() without the check of the state (a mutation of the code)
start_unchecked(w) == UNION {start_offline(w0) : w0 \in probe(w)}

\* start()
start(w) ==
    UNION {IF w0.rec.state = "offline" THEN start_offline(w0)
           ELSE {Raise(w0, "InvalidStateChange")} : w0 \in probe(w)}

\* __check_running letting every state pass (a mutation of the code)
check_running_absent(w) == probe(w)

\* __check_running
check_running(w) ==
    {IF w0.rec.state = "offline" THEN Raise(w0, "InvalidStateChange") ELSE w0 :
        w0 \in probe(w)}

\* __set_option_offline letting every state pass (a mutation of the code)
set_option_offline_absent(w) == probe(w)

\* __set_option_offline
set_option_offline(w) ==
    {IF w0.rec.state # "offline" THEN Raise(w0, "InvalidStateChange") ELSE w0 :
        w0 \in probe(w)}

\* __send_monitor_command(command): the command reaches the monitor, or the
\* telnet session fails
send_monitor_command(w, command) ==
    IF ProcStatus(w, w.rec.pid) = "qemu"
    THEN {[w EXCEPT !.out.monitor = @ \cup {command}]}
         \cup (IF w.env.faults THEN {Raise(w, "ConnectionError")} ELSE {})
    ELSE {Raise(w, "ConnectionError")}

\* a QEMU process that was told to quit exits; where things may go wrong it
\* may also not have exited yet, or have been reaped already
Signalled(w) ==
    IF ProcStatus(w, w.rec.pid) = "qemu"
    THEN {[w EXCEPT !.procs[w.rec.pid] = "zombie"]}
         \cup (IF w.env.faults
               THEN {w, [w EXCEPT !.procs[w.rec.pid] = "none"]}
               ELSE {})
    ELSE {w}

\* lines 1420-1428 of stop(): quit on the monitor and SIGINT, both best effort
stop_signals(w) ==
    LET asked == UNION {IF Ok(w1) THEN Signalled(w1) ELSE {[w1 EXCEPT !.out.exc = "none"]} :
                           w1 \in send_monitor_command(w, "quit")}
        kill(w2) ==
            IF ProcStatus(w2, w2.rec.pid) = "none" THEN {w2}
            ELSE Signalled([w2 EXCEPT !.out.signals = @ \cup {<<w2.rec.pid, "SIGINT">>}])
    IN UNION {kill(w2) : w2 \in asked}

\* stop() that gives up when the monitor cannot be reached (a mutation of
\* the code)
stop_needing_monitor(w) ==
    Then(check_running(w),
         LAMBDA w0 : UNION {IF "quit" \in w1.out.monitor THEN {mark_offline(w1)} ELSE {w1} :
                               w1 \in stop_signals(w0)})

\* stop()
stop(w) ==
    Then(check_running(w),
         LAMBDA w0 : {mark_offline(w1) : w1 \in stop_signals(w0)})

\* Session.delete(instance): an object that is no mapped row, such as a
\* bound method, is refused with UnmappedInstanceError
session_delete(w, instance) ==
    IF instance = "row" THEN [w EXCEPT !.out.deleted = {VmId}]
    ELSE Raise(w, "UnmappedInstanceError")

\* remove(): the except clause names self.InvalidStateChange, which
\* VertiVMLive does not have (the class is Exceptions.InvalidStateChange), so
\* matching the exception of stop() raises AttributeError; delete() is handed
\* self.db_object, the method, not the row it returns
remove(w) ==
    LET after(w1) ==
            IF w1.out.exc = "InvalidStateChange" THEN Raise(w1, "AttributeError")
            ELSE IF ~Ok(w1) THEN w1
            ELSE session_delete(IF w1.disp.connected THEN disconnect(w1) ELSE w1,
                                "method")
    IN {after(w1) : w1 \in stop(w)}

\* signal_shutdown() and signal_reset()
signal(w, command) ==
    Then(check_running(w), LAMBDA w0 : send_monitor_command(w0, command))

-----------------------------------------------------------------------------
(* Configuration and attached resources *)

\* the chain of checks without those of memory and cores (a mutation of
\* the code)
properties_error_no_floor(w, p) ==
    IF p.vga \notin QEMUDevices_vga THEN "InvalidArgument"
    ELSE IF p.machine \notin QEMUDevices_machine THEN "InvalidArgument"
    ELSE IF p.floppy # NoneS /\ ~isfile(w, p.floppy) THEN "InvalidArgument"
    ELSE "none"

\* lines 1174-1196: the exception the chain of checks raises, or "none"; the
\* rtc and cpu checks are branches of the same chain as the floppy test
properties_error(w, p) ==
    IF p.memory < 8388608 THEN "InvalidArgument"
    ELSE IF p.cores > HostCpus \/ p.cores < 1 THEN "InvalidArgument"
    ELSE IF p.vga \notin QEMUDevices_vga THEN "InvalidArgument"
    ELSE IF p.machine \notin QEMUDevices_machine THEN "InvalidArgument"
    ELSE IF p.sound \notin QEMUDevices_sound THEN "InvalidArgument"
    ELSE IF p.network \notin QEMUDevices_network THEN "InvalidArgument"
    ELSE IF p.scsi \notin QEMUDevices_scsi THEN "InvalidArgument"
    ELSE IF ~(\A k \in 1..Len(p.bootorder) :
                  p.bootorder[k] \in {"a", "b", "c", "d", "n", "p"})
         THEN "InvalidArgument"
    ELSE IF p.floppy # NoneS
         THEN (IF ~isfile(w, p.floppy) THEN "InvalidArgument" ELSE "none")
    ELSE IF p.rtc \notin QEMUDevices_rtc THEN "InvalidArgument"
    ELSE IF p.cpu \notin QEMUDevices_cpu THEN "InvalidArgument"
    ELSE "none"

\* lines 1149-1196 of set_properties: the offline check and the chain of
\* checks
properties_checked(w, p) ==
    Then(set_option_offline(w),
         LAMBDA w0 :
           LET e == properties_error(w0, p) IN
           IF e # "none" THEN {Raise(w0, e)} ELSE {w0})

\* lines 1198-1210 of set_properties: the twelve assignments and the commit
properties_write(w, p) ==
    [w EXCEPT !.rec.memory = p.memory, !.rec.cores = p.cores,
              !.rec.cpu = p.cpu, !.rec.machine = p.machine,
              !.rec.vga = p.vga, !.rec.sound = p.sound,
              !.rec.bootorder = p.bootorder,
              !.rec.network = p.network, !.rec.floppy = p.floppy,
              !.rec.scsi = p.scsi, !.rec.numa = p.numa,
              !.rec.rtc = p.rtc]

\* set_properties(properties)
set_properties(w, p) ==
    Then(properties_checked(w, p), LAMBDA w0 : {properties_write(w0, p)})

\* get_properties()
get_properties(r) ==
    [memory |-> r.memory, cores |-> r.cores, cpu |-> r.cpu,
     machine |-> r.machine, vga |-> r.vga, sound |-> r.sound,
     bootorder |-> r.bootorder, network |-> r.network, floppy |-> r.floppy,
     numa |-> r.numa, scsi |-> r.scsi, rtc |-> r.rtc]

\* the ids of a forwarding list
FwdIds(fw) == {fw[k].id : k \in 1..Len(fw)}

\* forward_port appending whether or not the id is in the list (a mutation
\* of the code)
forward_port_always(w, external_port, internal_port, protocol0, external_ip) ==
    Then(set_option_offline(w),
         LAMBDA w0 :
           LET protocol == lower(protocol0)
               fwd_id == fwd_id_of(protocol, external_ip, external_port, internal_port)
           IN {[w0 EXCEPT !.out.value = fwd_id,
                          !.rec.forwarding = Append(@,
                              [id |-> fwd_id, protocol |-> protocol,
                               external_ip |-> external_ip,
                               external_port |-> external_port,
                               internal_port |-> internal_port])]})

\* forward_port comparing the protocol as it was given (a mutation of the
\* code)
forward_port_exact(w, external_port, internal_port, protocol0, external_ip) ==
    Then(set_option_offline(w),
         LAMBDA w0 :
           LET fwd_id == fwd_id_of(protocol0, external_ip, external_port, internal_port)
           IN IF ~validate_ip(external_ip) THEN {Raise(w0, "InvalidArgument")}
              ELSE IF ~validate_port(external_port) THEN {Raise(w0, "InvalidArgument")}
              ELSE IF ~validate_port(internal_port) THEN {Raise(w0, "InvalidArgument")}
              ELSE IF protocol0 \notin {<<"t", "c", "p">>, <<"u", "d", "p">>} THEN {Raise(w0, "InvalidArgument")}
              ELSE IF fwd_id \notin FwdIds(w0.rec.forwarding)
              THEN {[w0 EXCEPT !.out.value = fwd_id,
                               !.rec.forwarding = Append(@,
                                   [id |-> fwd_id, protocol |-> protocol0,
                                    external_ip |-> external_ip,
                                    external_port |-> external_port,
                                    internal_port |-> internal_port])]}
              ELSE {[w0 EXCEPT !.out.value = fwd_id]})

\* forward_port(external_port, internal_port, protocol, external_ip), the
\* ports given by their text
forward_port(w, external_port, internal_port, protocol0, external_ip) ==
    Then(set_option_offline(w),
         LAMBDA w0 :
           LET protocol == lower(protocol0)
               fwd_id == fwd_id_of(protocol, external_ip, external_port, internal_port)
           IN IF ~validate_ip(external_ip) THEN {Raise(w0, "InvalidArgument")}
              ELSE IF ~validate_port(external_port) THEN {Raise(w0, "InvalidArgument")}
              ELSE IF ~validate_port(internal_port) THEN {Raise(w0, "InvalidArgument")}
              ELSE IF protocol \notin {<<"t", "c", "p">>, <<"u", "d", "p">>} THEN {Raise(w0, "InvalidArgument")}
              ELSE IF fwd_id \notin FwdIds(w0.rec.forwarding)
              THEN {[w0 EXCEPT !.out.value = fwd_id,
                               !.rec.forwarding = Append(@,
                                   [id |-> fwd_id, protocol |-> protocol,
                                    external_ip |-> external_ip,
                                    external_port |-> external_port,
                                    internal_port |-> internal_port])]}
              ELSE {[w0 EXCEPT !.out.value = fwd_id]})

\* remove_forwarding keeping the rules of the id instead of the others (a
\* mutation of the code)
remove_forwarding_inverted(w, fwd_id) ==
    Then(set_option_offline(w),
         LAMBDA w0 : {[w0 EXCEPT !.rec.forwarding =
                          SelectSeq(@, LAMBDA x : x.id = fwd_id)]})

\* remove_forwarding(fwd_id)
remove_forwarding(w, fwd_id) ==
    Then(set_option_offline(w),
         LAMBDA w0 : {[w0 EXCEPT !.rec.forwarding =
                          SelectSeq(@, LAMBDA x : x.id # fwd_id)]})

\* the elements of a list
Elems(s) == {s[k] : k \in 1..Len(s)}

\* attach_cdrom(iso)
attach_cdrom(w, iso) ==
    Then(set_option_offline(w),
         LAMBDA w0 :
           IF ~isfile(w0, iso) THEN {RaiseMsg(w0, "LaunchDependencyMissing", iso)}
           ELSE IF iso \notin Elems(w0.rec.cdroms)
           THEN {[w0 EXCEPT !.rec.cdroms = Append(@, iso)]}
           ELSE {w0})

\* detach_cdrom(iso)
detach_cdrom(w, iso) ==
    Then(set_option_offline(w),
         LAMBDA w0 :
           IF iso \in Elems(w0.rec.cdroms)
           THEN {[w0 EXCEPT !.rec.cdroms = SelectSeq(@, LAMBDA x : x # iso)]}
           ELSE {w0})

\* attach_drive appending without looking at the list (a mutation of the code)
attach_drive_always(w, img, dtype0) ==
    Then(set_option_offline(w),
         LAMBDA w0 : {[w0 EXCEPT !.rec.drives =
                          Append(@, [path |-> img, type |-> lower(dtype0)])]})

\* attach_drive(img, dtype)
attach_drive(w, img, dtype0) ==
    Then(set_option_offline(w),
         LAMBDA w0 :
           LET dtype == lower(dtype0) IN
           IF dtype \notin QEMUDevices_storage
           THEN {RaiseMsg(w0, "InvalidDriveType", dtype)}
           ELSE IF ~isfile(w0, img)
           THEN {RaiseMsg(w0, "LaunchDependencyMissing", img)}
           ELSE IF img \notin {x.path : x \in Elems(w0.rec.drives)}
           THEN {[w0 EXCEPT !.rec.drives = Append(@, [path |-> img, type |-> dtype])]}
           ELSE {w0})

\* detach_drive(img)
detach_drive(w, img) ==
    Then(set_option_offline(w),
         LAMBDA w0 : {[w0 EXCEPT !.rec.drives =
                          SelectSeq(@, LAMBDA x : x.path # img)]})

\* Vertibird.create_drive(img, size): qemu-img makes the file, or writes to
\* its standard error
create_drive(w, img) ==
    IF ~isfile(w, img)
    THEN {[w EXCEPT !.files = @ \cup {img}]}
         \cup (IF w.env.faults THEN {Raise(w, "SubprocessLaunchException")} ELSE {})
    ELSE {RaiseMsg(w, "DriveAlreadyExists", img)}

\* create_or_attach_drive(img, size, dtype)
create_or_attach_drive(w, img, dtype) ==
    Then(Then(set_option_offline(w),
              LAMBDA w0 : IF ~isfile(w0, img) THEN create_drive(w0, img) ELSE {w0}),
         LAMBDA w1 : attach_drive(w1, img, dtype))

-----------------------------------------------------------------------------
(* Inputs of the operations *)

\* image paths: a plain one, one with a blank, one with a comma, one whose
\* comma disappears when the path is normalised
ImgPlain == <<"a">>
ImgBlank == <<"b", " ", "c">>
ImgComma == <<"d", ",", "e">>
ImgDotDot == <<"f", ",", "/", ".", ".", "/", "a">>

CdromInputs == {ImgPlain, ImgBlank}
DriveInputs == {ImgDotDot}
\* detach_drive is also asked for a path that is never attached as a drive
DetachDriveInputs == DriveInputs \cup {ImgPlain}
DriveTypeInputs == {<<"i", "d", "e">>, <<"A", "H", "C", "I">>}
FloppyInputs == {ImgPlain, ImgComma}
ImagePaths == CdromInputs \cup DriveInputs \cup FloppyInputs

\* property dictionaries handed to set_properties: the defaults; an ISA-only
\* machine (with the default sound model hda) and a floppy path with a comma;
\* the standard machine with that floppy; a floppy and a CPU model that is in
\* no table; a memory size below the floor
PropertyInputs ==
    {DefaultProperties,
     [DefaultProperties EXCEPT !.machine = <<"i", "s", "a", "p", "c">>, !.floppy = ImgComma],
     [DefaultProperties EXCEPT !.floppy = ImgComma],
     [DefaultProperties EXCEPT !.floppy = ImgPlain, !.cpu = <<"h", "o", ",", "s", "t">>],
     [DefaultProperties EXCEPT !.memory = 8388607]}

\* forwarding tuples <<external_port, internal_port, protocol, external_ip>>:
\* an IPv6 address, and two rules for all addresses whose joined texts have
\* the same CRC-32
ForwardInputs ==
    {<<<<"8", "0">>, <<"8", "0">>, <<"t", "c", "p">>, <<":", ":", "1">>>>,
     <<<<"1", "0", "3">>, <<"1", "0", "3">>, <<"t", "c", "p">>, <<"0", ".", "0", ".", "0", ".", "0">>>>,
     <<<<"3", "7", "3", "5", "1">>, <<"2", "2">>, <<"t", "c", "p">>, <<"0", ".", "0", ".", "0", ".", "0">>>>}
\* the ids handed to remove_forwarding: those forward_port returns for them
ForwardIds == {fwd_id_of(lower(f[3]), f[4], f[1], f[2]) : f \in ForwardInputs}

-----------------------------------------------------------------------------
(* The operations as actions: a call made in the current state returns in
   one of the worlds the operation can end in *)

StateProbe(env) == \E w \in state(Call("state", <<>>, env)) : Returns(w)

Start(env) == \E w \in start(Call("start", <<>>, env)) : Returns(w)

Stop(env) == \E w \in stop(Call("stop", <<>>, env)) : Returns(w)

Remove(env) == \E w \in remove(Call("remove", <<>>, env)) : Returns(w)

SignalShutdown(env) ==
    \E w \in signal(Call("signal_shutdown", <<>>, env), "system_powerdown") :
        Returns(w)

SignalReset(env) ==
    \E w \in signal(Call("signal_reset", <<>>, env), "system_reset") : Returns(w)

SetProperties(env) ==
    \E p \in PropertyInputs :
        \E w \in set_properties(Call("set_properties", <<p>>, env), p) : Returns(w)

ForwardPort(env) ==
    \E f \in ForwardInputs :
        \E w \in forward_port(Call("forward_port", f, env), f[1], f[2], f[3], f[4]) :
            Returns(w)

RemoveForwarding(env) ==
    \E i \in ForwardIds :
        \E w \in remove_forwarding(Call("remove_forwarding", <<i>>, env), i) :
            Returns(w)

AttachCdrom(env) ==
    \E iso \in CdromInputs :
        \E w \in attach_cdrom(Call("attach_cdrom", <<iso>>, env), iso) : Returns(w)

DetachCdrom(env) ==
    \E iso \in CdromInputs :
        \E w \in detach_cdrom(Call("detach_cdrom", <<iso>>, env), iso) : Returns(w)

AttachDrive(env) ==
    \E img \in DriveInputs, t \in DriveTypeInputs :
        \E w \in attach_drive(Call("attach_drive", <<img, t>>, env), img, t) :
            Returns(w)

DetachDrive(env) ==
    \E img \in DetachDriveInputs :
        \E w \in detach_drive(Call("detach_drive", <<img>>, env), img) : Returns(w)

CreateOrAttachDrive(env) ==
    \E img \in DriveInputs, t \in DriveTypeInputs :
        \E w \in create_or_attach_drive(
                     Call("create_or_attach_drive", <<img, t>>, env), img, t) :
            Returns(w)

(* The environment between calls *)

Env(op) ==
    /\ out' = NoOutcome(op, <<>>)
    /\ UNCHANGED <<rec, disp, audio, store, thr>>

\* the QEMU process is killed or crashes: it is a zombie until reaped
ProcessDies ==
    /\ \E p \in Pids : procs[p] = "qemu" /\ procs' = [procs EXCEPT ![p] = "zombie"]
    /\ UNCHANGED files
    /\ Env("env:dies")

\* a zombie is reaped: its pid is free again
ProcessReaped ==
    /\ \E p \in Pids : procs[p] = "zombie" /\ procs' = [procs EXCEPT ![p] = "none"]
    /\ UNCHANGED files
    /\ Env("env:reaped")

\* the pid the record holds, free again, is given to a process that is not
\* ours
PidReused ==
    /\ rec.pid # NoPid
    /\ procs[rec.pid] = "none"
    /\ procs' = [procs EXCEPT ![rec.pid] = "other"]
    /\ UNCHANGED files
    /\ Env("env:pid")

\* something else removes the audio pipe of the record
PipeRemoved ==
    /\ rec.audiopipe \in files
    /\ files' = files \ {rec.audiopipe}
    /\ UNCHANGED procs
    /\ Env("env:unlink")

\* the state after Vertibird.create(): a committed row with fresh ports, no
\* process, the image files in place, the display of the handle not connected
Created(ports) ==
    /\ rec = VertiVM(ports)
    /\ procs = [p \in Pids |-> "none"]
    /\ files = ImagePaths
    /\ disp = [client |-> FALSE, connected |-> FALSE, inputs |-> "noop"]
    /\ audio = <<>>
    /\ store = {VmId}
    /\ thr = NoThreads
    /\ out = NoOutcome("create", <<>>)

-----------------------------------------------------------------------------
(* The life cycle of one record with the default configuration, in an
   environment where anything may go wrong *)

Init == \E p \in Faulty.ports : Created(p)

Next ==
    \/ StateProbe(Faulty)
    \/ Start(Faulty)
    \/ Stop(Faulty)
    \/ Remove(Faulty)
    \/ SignalShutdown(Faulty)
    \/ SignalReset(Faulty)
    \/ ProcessDies
    \/ ProcessReaped
    \/ PidReused
    \/ PipeRemoved

Spec == Init /\ [][Next]_vars

-----------------------------------------------------------------------------
(* Configuring a record and compiling its arguments, in a quiet environment *)

InitCompile == \E p \in Quiet.ports : Created(p)

NextCompile ==
    \/ Start(Quiet)
    \/ SetProperties(Quiet)
    \/ ForwardPort(Quiet)
    \/ RemoveForwarding(Quiet)
    \/ AttachCdrom(Quiet)
    \/ DetachCdrom(Quiet)
    \/ AttachDrive(Quiet)
    \/ DetachDrive(Quiet)
    \/ CreateOrAttachDrive(Quiet)

SpecCompile == InitCompile /\ [][NextCompile]_vars

-----------------------------------------------------------------------------
(* Setting the properties and compiling them, in a quiet environment *)

\* property dictionaries inside the tables: every machine type with an ISA
\* or a PCI model of sound, network and VGA, one core or as many as the host
\* has, with and without a floppy image
DomainInputs ==
    {[DefaultProperties EXCEPT !.machine = m, !.sound = s, !.network = n,
                               !.vga = v, !.cores = c, !.floppy = f] :
        m \in {<<"p", "c">>, <<"q", "3", "5">>, <<"i", "s", "a", "p", "c">>}, s \in {<<"h", "d", "a">>, <<"s", "b", "1", "6">>},
        n \in {<<"r", "t", "l", "8", "1", "3", "9">>, <<"n", "e", "2", "k", "_", "i", "s", "a">>}, v \in {<<"s", "t", "d">>, <<"c", "i", "r", "r", "u", "s">>},
        c \in {1, HostCpus}, f \in {NoneS}}

\* a floppy image that does not exist
ImgMissing == <<"z", "z">>

\* dictionaries with one property outside its domain, without a floppy and
\* with an existing one
FaultInputs ==
    UNION {{[p EXCEPT !.memory = 8388607], [p EXCEPT !.cores = 0],
            [p EXCEPT !.cores = HostCpus + 1], [p EXCEPT !.vga = <<"v", "g", "a">>],
            [p EXCEPT !.machine = <<"m", "a", "c">>], [p EXCEPT !.sound = <<"e", "s", "1", "3", "7", "0">>],
            [p EXCEPT !.network = <<"n", "e", "2", "k">>], [p EXCEPT !.scsi = <<"s", "c", "s", "i">>],
            [p EXCEPT !.rtc = <<"g", "m", "t">>], [p EXCEPT !.cpu = <<"h", "o", ",", "s", "t">>],
            [p EXCEPT !.bootorder = <<"c", "d", "x">>]} :
              p \in {DefaultProperties, [DefaultProperties EXCEPT !.floppy = ImgPlain]}}
      \cup {[DefaultProperties EXCEPT !.floppy = ImgMissing]}

ConfigureInputs == DomainInputs \cup FaultInputs

Configure(env) ==
    \E p \in ConfigureInputs :
        \E w \in set_properties(Call("set_properties", <<p>>, env), p) : Returns(w)

NextConfigure ==
    \/ Configure(Quiet)
    \/ Start(Quiet)

SpecConfigure == InitCompile /\ [][NextConfigure]_vars

-----------------------------------------------------------------------------
(* AudioOutput: the buffer of received chunks and read() *)

\* AUDIO_MAX_SIZE, AUDIO_BLOCK_SIZE
AUDIO_MAX_SIZE == 17640
AUDIO_BLOCK_SIZE == 4096

\* BLANK_WAV_HEADER: "RIFF", 4 bytes of length, "WAVE", the fmt subchunk,
\* "data", 4 bytes of length
BLANK_WAV_HEADER ==
    <<82, 73, 70, 70, 0, 0, 0, 0, 87, 65, 86, 69, 102, 109, 116, 32,
      16, 0, 0, 0, 1, 0, 2, 0, 68, 172, 0, 0, 16, 177, 2, 0, 4, 0, 16, 0,
      100, 97, 116, 97, 0, 0, 0, 0>>

\* maxlen of the deque: round(AUDIO_MAX_SIZE / AUDIO_BLOCK_SIZE)
AudioMaxLen == (2 * AUDIO_MAX_SIZE + AUDIO_BLOCK_SIZE) \div (2 * AUDIO_BLOCK_SIZE)

\* bytearray(n)
bytearray(n) == [k \in 1..n |-> 0] \o <<>>

\* n.to_bytes(length, byteorder = 'little')
to_bytes(n, length) == [k \in 1..length |-> (n \div (256 ^ (k - 1))) % 256] \o <<>>

\* ret[:len(chunk)] = chunk
SliceAssign(ret, chunk) == chunk \o SubSeq(ret, Len(chunk) + 1, Len(ret))

\* lines 506-511: a chunk that starts like a WAVE file loses 44 bytes
StripHeader(ret) ==
    IF /\ Len(ret) >= 12
       /\ SubSeq(ret, 1, 4) = <<82, 73, 70, 70>>
       /\ SubSeq(ret, 9, 12) = <<87, 65, 86, 69>>
    THEN SubSeq(ret, 45, Len(ret))
    ELSE ret

\* the blank header left as it is, then the data (a mutation of the code)
Container_blank(ret) == BLANK_WAV_HEADER \o ret

\* lines 513-525: the blank header with both lengths written, then the data
Container(ret) ==
    LET blank == BLANK_WAV_HEADER IN
    SubSeq(blank, 1, 4) \o to_bytes((Len(blank) + Len(ret)) - 8, 4)
        \o SubSeq(blank, 9, 40) \o to_bytes(Len(ret), 4) \o ret

\* AudioOutput.read() on the buffer b: the container returned and the
\* buffer left
AudioOutput_read(b) ==
    LET ret == IF b = <<>> THEN bytearray(AUDIO_BLOCK_SIZE)
               ELSE SliceAssign(bytearray(AUDIO_BLOCK_SIZE), Head(b))
    IN [value |-> Container(StripHeader(ret)),
        audio |-> IF b = <<>> THEN b ELSE Tail(b)]

\* deque.append on a deque with maxlen: a full deque drops its oldest item
deque_append(b, x) ==
    IF Len(b) >= AudioMaxLen THEN Append(Tail(b), x) ELSE Append(b, x)

\* chunks the subscriber socket receives: raw samples, a chunk that begins
\* with the WAVE header QEMU writes, a short block, a whole block
ChunkInputs ==
    {<<1, 2, 3, 4>>, BLANK_WAV_HEADER \o <<5, 6>>, <<9>>,
     [k \in 1..AUDIO_BLOCK_SIZE |-> 7] \o <<>>}

\* __audio_get_thread: a received chunk is appended
AudioReceive ==
    /\ \E chunk \in ChunkInputs : audio' = deque_append(audio, chunk)
    /\ out' = NoOutcome("recv", <<>>)
    /\ UNCHANGED <<rec, procs, files, disp, store, thr>>

\* read()
AudioRead ==
    /\ out' = [NoOutcome("read", <<>>) EXCEPT !.value = AudioOutput_read(audio).value]
    /\ audio' = AudioOutput_read(audio).audio
    /\ UNCHANGED <<rec, procs, files, disp, store, thr>>

NextAudio ==
    \/ AudioReceive
    \/ AudioRead

SpecAudio == InitCompile /\ [][NextAudio]_vars

-----------------------------------------------------------------------------
(* Several threads of one program using the same record: each step below is
   one stretch of an operation between two points at which another thread
   may run.  Every thread has a database session of its own; what it reads
   is what was committed. *)

\* _state_check(vnc_connecting = True), as display.connect() and the audio
\* relay call it, up to the test of audiothrd at line 1468: the next position
\* of the thread is "spawn" when the flag was read as False, and "mark" when
\* the record was read as offline or its process was not found: the call of
\* __mark_offline at line 1480 comes next
probe_check(w) ==
    IF w.rec.state # "offline" /\ ProcStatus(w, w.rec.pid) = "qemu"
    THEN [w |-> w, next |-> IF w.rec.audiothrd THEN "idle" ELSE "spawn"]
    ELSE [w |-> w, next |-> "mark"]

\* lines 1469-1476: the flag is set and committed and the relay thread is
\* started
probe_spawn(w) == [w EXCEPT !.rec.audiothrd = TRUE, !.out.spawned = @ + 1]

ProbeCheck ==
    \E t \in Threads :
        /\ thr.pc[t] = "idle"
        /\ LET c == probe_check(Call("state", <<>>, Quiet)) IN
           /\ Commits(c.w)
           /\ thr' = [thr EXCEPT !.pc[t] = c.next]

ProbeSpawn ==
    \E t \in Threads :
        /\ thr.pc[t] = "spawn"
        /\ Commits(probe_spawn(Call("state", <<>>, Quiet)))
        /\ thr' = [thr EXCEPT !.pc[t] = "idle", !.relays = @ + 1]

\* line 1480: __mark_offline, on the record as it is by now
ProbeMark ==
    \E t \in Threads :
        /\ thr.pc[t] = "mark"
        /\ Commits(mark_offline(Call("state", <<>>, Quiet)))
        /\ thr' = [thr EXCEPT !.pc[t] = "idle"]

\* start() up to the test of line 823
StartProbe ==
    \E t \in Threads :
        /\ thr.pc[t] = "idle"
        /\ \E w \in probe(Call("start", <<>>, Quiet)) :
              IF w.rec.state = "offline"
              THEN /\ Commits(w)
                   /\ thr' = [thr EXCEPT !.pc[t] = "launch",
                                         !.relays = @ + w.out.spawned]
              ELSE /\ Commits(Raise(w, "InvalidStateChange"))
                   /\ thr' = [thr EXCEPT !.relays = @ + w.out.spawned]

\* start() from line 824 to the commit of line 1100
StartLaunch ==
    \E t \in Threads :
        /\ thr.pc[t] = "launch"
        /\ \E w \in Then(start_popen(Call("start", <<>>, Quiet)),
                         LAMBDA v : {start_commit(v)}) :
              /\ Commits(w)
              /\ thr' = IF Ok(w)
                        THEN [thr EXCEPT !.pc[t] = "launched", !.relays = 0]
                        ELSE [thr EXCEPT !.pc[t] = "idle"]

\* start() from line 1102 to its end
StartSettle ==
    \E t \in Threads :
        /\ thr.pc[t] = "launched"
        /\ \E w \in start_settled(Call("start", <<>>, Quiet)) :
              /\ Commits(w)
              /\ thr' = [thr EXCEPT !.pc[t] = "idle",
                                    !.relays = @ + w.out.spawned]

NextThreads ==
    \/ ProbeCheck
    \/ ProbeSpawn
    \/ ProbeMark
    \/ StartProbe
    \/ StartLaunch
    \/ StartSettle
    \/ ProcessDies
    \/ ProcessReaped

SpecThreads == InitCompile /\ [][NextThreads]_vars

-----------------------------------------------------------------------------
(* The operations that loop: display.connect() and wait(), run by thread 1
   one pass of the loop at a time, while other threads start and stop the
   machine and the process lives and dies.  What the passes themselves meet
   (a handshake that fails, a process that dies under the probe) may go
   wrong; the calls of the other threads go well. *)

\* line 656-657 of connect(): disconnect, take the start time
ConnectBegin ==
    /\ thr.pc[1] = "idle"
    /\ Commits(disconnect(Call("connect", <<>>, Faulty)))
    /\ thr' = [thr EXCEPT !.pc[1] = "connect", !.timedOut = FALSE]

\* one evaluation of the condition of the while of connect() and, when it
\* holds, one pass of the body: state() is only called when there is no
\* client or the time is up
connect_pass(w, timedOut) ==
    IF ~(~w.disp.client \/ timedOut) THEN {[w |-> w, next |-> "idle"]}
    ELSE UNION {
           IF w1.rec.state # "online" THEN {[w |-> w1, next |-> "idle"]}
           ELSE {[w |-> w2, next |-> "connect"] :
                    w2 \in connect_attempt(w1, MaxConnectTries)}
           : w1 \in state_check(w, TRUE, MaxConnectTries)}

ConnectPass ==
    /\ thr.pc[1] = "connect"
    /\ \E c \in connect_pass(Call("connect", <<>>, Faulty), thr.timedOut) :
          /\ Commits(c.w)
          /\ thr' = [thr EXCEPT !.pc[1] = c.next]

\* VNC_TIMEOUT_SECS have passed since connect() took the start time
TimePasses ==
    /\ thr.pc[1] = "connect"
    /\ ~thr.timedOut
    /\ thr' = [thr EXCEPT !.timedOut = TRUE]
    /\ out' = NoOutcome("env:clock", <<>>)
    /\ UNCHANGED <<rec, procs, files, disp, audio, store>>

\* wait() is called
WaitBegin ==
    /\ thr.pc[1] = "idle"
    /\ thr' = [thr EXCEPT !.pc[1] = "wait"]
    /\ out' = NoOutcome("wait", <<>>)
    /\ UNCHANGED <<rec, procs, files, disp, audio, store>>

\* wait() that returns after its first probe (a mutation of the code)
wait_poll_once(w) == {[w |-> w1, next |-> "idle"] : w1 \in state(w)}

\* one pass of the loop of wait(): the probe, and the sleep unless it
\* reported offline
wait_poll(w) ==
    {[w |-> w1, next |-> IF w1.out.ret # "offline" THEN "wait" ELSE "idle"] :
        w1 \in state(w)}

WaitPoll ==
    /\ thr.pc[1] = "wait"
    /\ \E c \in wait_poll(Call("wait", <<>>, Faulty)) :
          /\ Commits(c.w)
          /\ thr' = [thr EXCEPT !.pc[1] = c.next]

NextConnect ==
    \/ Start(Quiet)
    \/ Stop(Quiet)
    \/ ProcessDies
    \/ ProcessReaped
    \/ ConnectBegin
    \/ ConnectPass
    \/ TimePasses

\* the thread inside connect() keeps being scheduled, and time passes
SpecConnect ==
    /\ InitCompile
    /\ [][NextConnect]_vars
    /\ WF_vars(ConnectPass)
    /\ WF_vars(TimePasses)

NextWait ==
    \/ Start(Quiet)
    \/ Stop(Quiet)
    \/ ProcessDies
    \/ ProcessReaped
    \/ PidReused
    \/ WaitBegin
    \/ WaitPoll

\* the thread inside wait() keeps being scheduled
SpecWait ==
    /\ InitCompile
    /\ [][NextWait]_vars
    /\ WF_vars(WaitPoll)

-----------------------------------------------------------------------------
(* The display session used directly: refresh(), capture(), connect(),
   disconnect() and the input methods, on a machine that other calls start
   and stop.  The client may fail in any call made on the display. *)

\* VMDisplay.refresh(force): nothing is done while the frame lease has not
\* run out; refreshScreen() on no client raises AttributeError, on a client
\* it may raise; both disconnect
refresh(w, force) ==
    (IF force THEN {} ELSE {w})
    \cup (IF ~w.disp.client THEN {disconnect(w)}
          ELSE {w} \cup (IF w.env.faults
                         THEN {disconnect(w)}
                         ELSE {}))

\* VMDisplay.capture(force): the frame of the client, or the placeholder
\* after another connect()
capture(w, force) ==
    UNION {IF w1.disp.client THEN {[w1 EXCEPT !.out.ret = "frame"]}
           ELSE {[w2 EXCEPT !.out.ret = "placeholder"] :
                    w2 \in connect(w1, MaxConnectTries)}
           : w1 \in refresh(w, force)}

\* paste, mouseMove, mouseDown, mouseUp, keyDown, keyUp: the attribute is
\* __return_none or the method of the client
input(w) ==
    IF w.disp.inputs = "noop" THEN [w EXCEPT !.out.ret = "None"]
    ELSE [w EXCEPT !.out.ret = "sent"]

Refresh(env) ==
    \E force \in BOOLEAN :
        \E w \in refresh(Call("refresh", <<force>>, env), force) : Returns(w)

Capture(env) ==
    \E force \in BOOLEAN :
        \E w \in capture(Call("capture", <<force>>, env), force) : Returns(w)

Connect(env) ==
    \E w \in connect(Call("connect", <<>>, env), MaxConnectTries) : Returns(w)

Disconnect ==
    \E w \in {disconnect(Call("disconnect", <<>>, Quiet))} : Returns(w)

Input == \E w \in {input(Call("input", <<>>, Quiet))} : Returns(w)

\* VertiVMLive.__init__ up to the end of VMDisplay.__init__: a handle is
\* made for the record and its display connects
OpenDisplay ==
    /\ thr.pc[1] = "idle"
    /\ \E w \in connect([Call("open", <<>>, Constructing) EXCEPT
                            !.disp = [client |-> FALSE, connected |-> FALSE,
                                      inputs |-> "noop"]],
                       MaxConnectTries) :
          /\ Commits(w)
          /\ thr' = [thr EXCEPT !.pc[1] = "open"]

\* the self.state() that ends VertiVMLive.__init__
OpenProbe ==
    /\ thr.pc[1] = "open"
    /\ \E w \in state(Call("open", <<>>, Faulty)) :
          /\ Commits(w)
          /\ thr' = [thr EXCEPT !.pc[1] = "idle"]

\* start() and stop() through another handle of the record, in this or
\* another process: the display of this handle is not touched
OtherHandleStart ==
    \E w \in start(Call("start", <<>>, Quiet)) :
        Returns([w EXCEPT !.disp = disp])

OtherHandleStop ==
    \E w \in stop(Call("stop", <<>>, Quiet)) :
        Returns([w EXCEPT !.disp = disp])

NextOpen ==
    \/ OtherHandleStart
    \/ OtherHandleStop
    \/ ProcessDies
    \/ ProcessReaped
    \/ OpenDisplay
    \/ OpenProbe

SpecOpen == InitCompile /\ [][NextOpen]_vars

NextDisplay ==
    \/ Start(Quiet)
    \/ Stop(Quiet)
    \/ ProcessDies
    \/ ProcessReaped
    \/ StateProbe(Faulty)
    \/ Refresh(Faulty)
    \/ Capture(Faulty)
    \/ Connect(Faulty)
    \/ Disconnect
    \/ Input

SpecDisplay == InitCompile /\ [][NextDisplay]_vars

-----------------------------------------------------------------------------
(* The audio relay thread, step by step.  Thread 1 is the relay that
   _state_check started first; thr.session is the pid of the process that
   was alive when it was started, thr.ftr the pipe path it read from the
   record. *)

\* a call that started a relay thread while none was running
StartsRelay(w) ==
    /\ Commits(w)
    /\ thr' = IF w.out.spawned > 0 /\ thr.pc[1] = "idle"
              THEN [thr EXCEPT !.pc[1] = "wait",
                               !.session = IF w.out.launched # NoPid
                                           THEN w.out.launched ELSE rec.pid]
              ELSE thr

RelayStart == \E w \in start(Call("start", <<>>, Quiet)) : StartsRelay(w)

RelayProbe == \E w \in state(Call("state", <<>>, Quiet)) : StartsRelay(w)

\* the relay has ended: return, break, or an exception nothing catches
relay_exit ==
    [thr EXCEPT !.pc[1] = "idle", !.ftr = NoneS, !.session = NoPid]

\* lines 752-762: one pass of 'while state(vnc_connecting = True) ==
\* offline: sleep', and on leaving it the read of audiopipe
RelayWait ==
    /\ thr.pc[1] = "wait"
    /\ \E w \in state_check(Call("relay", <<>>, Quiet), TRUE, MaxConnectTries) :
          /\ Commits(w)
          /\ thr' = IF w.rec.state = "offline" THEN thr
                    ELSE [thr EXCEPT !.pc[1] = "open",
                                     !.ftr = w.rec.audiopipe]

\* lines 764-772: bind (the port may be in use: ZMQError) and the call of
\* open(ftr, 'rb'), which raises for a missing file or a path of None and
\* otherwise blocks until the pipe has a writer
RelayOpen ==
    /\ thr.pc[1] = "open"
    /\ \/ thr' = relay_exit
       \/ /\ thr.ftr \in files
          /\ thr' = [thr EXCEPT !.pc[1] = "blocked"]
    /\ out' = NoOutcome("relay", <<>>)
    /\ UNCHANGED <<rec, procs, files, disp, audio, store>>

\* open() returns: the QEMU process that was given the pipe has opened it
\* for writing
RelayOpened ==
    /\ thr.pc[1] = "blocked"
    /\ rec.audiopipe = thr.ftr
    /\ rec.pid # NoPid
    /\ procs[rec.pid] = "qemu"
    /\ thr' = [thr EXCEPT !.pc[1] = "relay"]
    /\ out' = NoOutcome("relay", <<>>)
    /\ UNCHANGED <<rec, procs, files, disp, audio, store>>

\* lines 774-789: one pass of 'while state(vnc_connecting = True) !=
\* offline', which breaks when the pipe is missing
RelayPass ==
    /\ thr.pc[1] = "relay"
    /\ \E w \in state_check(Call("relay", <<>>, Quiet), TRUE, MaxConnectTries) :
          /\ Commits(w)
          /\ thr' = IF w.rec.state = "offline" \/ thr.ftr \notin w.files
                    THEN relay_exit ELSE thr

NextRelay ==
    \/ RelayStart
    \/ RelayProbe
    \/ Stop(Quiet)
    \/ ProcessDies
    \/ ProcessReaped
    \/ RelayWait
    \/ RelayOpen
    \/ RelayOpened
    \/ RelayPass

\* every thread that can take a step is scheduled
SpecRelay ==
    /\ InitCompile
    /\ [][NextRelay]_vars
    /\ WF_vars(RelayWait)
    /\ WF_vars(RelayOpen)
    /\ WF_vars(RelayOpened)
    /\ WF_vars(RelayPass)

-----------------------------------------------------------------------------
(* forward_port and remove_forwarding on an offline record, over arguments
   that pass and arguments that fail each of the four tests *)

\* <<external_port, internal_port, protocol, external_ip>>
ValidationInputs ==
    {<<<<"8", "0">>, <<"8", "0">>, <<"t", "c", "p">>, <<"0", ".", "0", ".", "0", ".", "0">>>>,
     <<<<"5", "3">>, <<"5", "3">>, <<"u", "d", "p">>, <<":", ":", "1">>>>,
     <<<<"6", "5", "5", "3", "5">>, <<"1">>, <<"T", "C", "P">>, <<"1", "2", "7", ".", "0", ".", "0", ".", "1">>>>,
     <<<<"+", "2", "2">>, <<"2", "2">>, <<"U", "d", "p">>, <<"1", "0", ".", "0", ".", "0", ".", "1">>>>,
     <<<<"0">>, <<"8", "0">>, <<"t", "c", "p">>, <<"0", ".", "0", ".", "0", ".", "0">>>>,
     <<<<"8", "0">>, <<"6", "5", "5", "3", "6">>, <<"t", "c", "p">>, <<"0", ".", "0", ".", "0", ".", "0">>>>,
     <<<<"8", "0", ".", "0">>, <<"8", "0">>, <<"t", "c", "p">>, <<"0", ".", "0", ".", "0", ".", "0">>>>,
     <<<<"8", "0">>, <<"-", "1">>, <<"u", "d", "p">>, <<"0", ".", "0", ".", "0", ".", "0">>>>,
     <<<<"h", "t", "t", "p">>, <<"8", "0">>, <<"t", "c", "p">>, <<"0", ".", "0", ".", "0", ".", "0">>>>,
     <<<<"8", "0">>, <<"8", "0">>, <<"i", "c", "m", "p">>, <<"0", ".", "0", ".", "0", ".", "0">>>>,
     <<<<"8", "0">>, <<"8", "0">>, <<>>, <<"0", ".", "0", ".", "0", ".", "0">>>>,
     <<<<"8", "0">>, <<"8", "0">>, <<"t", "c", "p">>, <<"l", "o", "c", "a", "l", "h", "o", "s", "t">>>>,
     <<<<"8", "0">>, <<"8", "0">>, <<"t", "c", "p">>, <<"2", "5", "6", ".", "0", ".", "0", ".", "1">>>>,
     <<<<"8", "0">>, <<"8", "0">>, <<"u", "d", "p">>, <<"1", ".", "2", ".", "3">>>>}

ValidationIds == {fwd_id_of(lower(f[3]), f[4], f[1], f[2]) : f \in ValidationInputs}

ForwardChecked ==
    \E f \in ValidationInputs :
        \E w \in forward_port(Call("forward_port", f, Quiet), f[1], f[2], f[3], f[4]) :
            Returns(w)

RemoveChecked ==
    \E i \in ValidationIds :
        \E w \in remove_forwarding(Call("remove_forwarding", <<i>>, Quiet), i) :
            Returns(w)

NextValidation ==
    \/ ForwardChecked
    \/ RemoveChecked

SpecValidation == InitCompile /\ [][NextValidation]_vars

-----------------------------------------------------------------------------
(* set_properties on thread 1, in two steps, while the threads run start():
   thr.arg holds the properties that passed the checks and are about to be
   written *)

\* set_properties up to line 1196
MutatorCheck ==
    /\ thr.pc[1] = "idle"
    /\ \E p \in PropertyInputs :
          \E w \in properties_checked(Call("set_properties", <<p>>, Quiet), p) :
              /\ Commits(w)
              /\ thr' = IF Ok(w)
                        THEN [thr EXCEPT !.pc[1] = "write", !.arg = p,
                                         !.relays = @ + w.out.spawned]
                        ELSE [thr EXCEPT !.relays = @ + w.out.spawned]

\* set_properties from line 1198
MutatorWrite ==
    /\ thr.pc[1] = "write"
    /\ Commits(properties_write(Call("set_properties", <<thr.arg>>, Quiet),
                                thr.arg))
    /\ thr' = [thr EXCEPT !.pc[1] = "idle", !.arg = <<>>]

NextMutate ==
    \/ MutatorCheck
    \/ MutatorWrite
    \/ StartProbe
    \/ StartLaunch
    \/ StartSettle
    \/ ProcessDies
    \/ ProcessReaped

SpecMutate == InitCompile /\ [][NextMutate]_vars

-----------------------------------------------------------------------------
(* Properties of the life cycle *)

\* C1: start() on a record whose state probe reports online raises
\* InvalidStateChange, launches no process and leaves pid, ports, audiopipe
\* and state as they were; in particular a second start() while the process
\* of the first stays alive fails.
C1_StartOnlineRefused ==
    [][/\ (out'.op = "start" /\ out'.probed = "online") =>
            /\ out'.exc = "InvalidStateChange"
            /\ out'.launched = NoPid
            /\ out'.argv = <<>>
            /\ \A p \in Pids : procs'[p] = "qemu" => procs[p] = "qemu"
            /\ rec'.pid = rec.pid
            /\ rec'.ports = rec.ports
            /\ rec'.audiopipe = rec.audiopipe
            /\ rec'.state = rec.state
       /\ (/\ out'.op = "start"
           /\ rec.state = "online"
           /\ rec.pid # NoPid
           /\ procs[rec.pid] = "qemu"
           /\ procs'[rec.pid] = "qemu") =>
            /\ out'.exc = "InvalidStateChange"
            /\ out'.launched = NoPid
      ]_vars

\* a second start() was refused, the process of the first still running
C1_Witness ==
    /\ out.op = "start"
    /\ out.was = "online"
    /\ out.probed = "online"
    /\ out.exc = "InvalidStateChange"
    /\ rec.state = "online"
    /\ rec.pid # NoPid
    /\ procs[rec.pid] = "qemu"

\* the fields of the record no state probe touches
ConfigFields ==
    {"memory", "cores", "cpu", "machine", "vga", "sound", "bootorder",
     "network", "scsi", "rtc", "floppy", "numa", "cdroms", "drives",
     "forwarding"}
SameOn(fields, r1, r2) == \A f \in fields : r1[f] = r2[f]

\* C2: stop() on a record whose state probe reports offline raises
\* InvalidStateChange, sends no monitor command and no SIGINT; the only
\* changes to the record are those of the probe's offline transition (state
\* offline, pid cleared, audio thread flag cleared, the audio pipe unlinked
\* and its path cleared), the only signal the probe's SIGKILL of the record's
\* own process; a record that was already offline with nothing left over is
\* not changed at all.
C2_StopOfflineRefused ==
    [][(out'.op = "stop" /\ out'.probed = "offline") =>
          /\ out'.exc = "InvalidStateChange"
          /\ out'.monitor = {}
          /\ out'.signals \subseteq {<<rec.pid, "SIGKILL">>}
          /\ SameOn(ConfigFields \cup {"ports", "log"}, rec, rec')
          /\ rec'.state = "offline"
          /\ rec'.pid = NoPid
          /\ rec'.audiopipe \in {rec.audiopipe, NoneS}
          /\ files' \subseteq files
          /\ files \ files' \subseteq {rec.audiopipe}
          /\ (/\ rec.state = "offline"
              /\ rec.pid = NoPid
              /\ ~rec.audiothrd
              /\ rec.audiopipe \notin files) =>
                (rec' = rec /\ out'.signals = {} /\ files' = files)
      ]_vars

\* stop() was refused on a record that was offline when it was called
C2_Witness ==
    /\ out.op = "stop"
    /\ out.was = "offline"
    /\ out.probed = "offline"
    /\ out.exc = "InvalidStateChange"
    /\ out.signals = {}

\* C2 as stated: the refused stop() sends no signal at all and leaves the
\* whole record as it was
C2_AsStated ==
    [][(out'.op = "stop" /\ out'.probed = "offline") =>
          /\ out'.exc = "InvalidStateChange"
          /\ out'.monitor = {}
          /\ out'.signals = {}
          /\ rec' = rec
      ]_vars

\* C3: stop() on a record found online performs the offline transition
\* whatever became of the monitor command and of SIGINT: it returns without
\* an exception, state offline, pid cleared, the display disconnected.
C3_StopAlwaysMarksOffline ==
    (out.op = "stop" /\ out.probed = "online") =>
        /\ out.exc = "none"
        /\ rec.state = "offline"
        /\ rec.pid = NoPid
        /\ ~rec.audiothrd
        /\ ~disp.connected
        /\ ~disp.client

\* the monitor was not reached and the process ignored SIGINT so far, yet
\* the record is offline
C3_Witness ==
    /\ out.op = "stop"
    /\ out.probed = "online"
    /\ out.monitor = {}
    /\ \E s \in out.signals : s[2] = "SIGINT" /\ procs[s[1]] = "qemu"
    /\ rec.state = "offline"
    /\ rec.pid = NoPid

\* C4: when the process of an online record is gone (a zombie, reaped, or
\* its pid given to another process), the next state() returns offline,
\* clears the pid, and afterwards no file exists under the path the record
\* held for the audio pipe.
C4_ProbeSeesDeadProcess ==
    [][(/\ out'.op = "state"
        /\ rec.state = "online"
        /\ rec.pid # NoPid
        /\ procs[rec.pid] # "qemu") =>
          /\ out'.ret = "offline"
          /\ out'.exc = "none"
          /\ rec'.state = "offline"
          /\ rec'.pid = NoPid
          /\ rec.audiopipe \notin files'
      ]_vars

\* state() found the process of an online record dead and returned offline
C4_Witness ==
    /\ out.op = "state"
    /\ out.was = "online"
    /\ out.found = "zombie"
    /\ out.ret = "offline"
    /\ rec.pid = NoPid
    /\ rec.audiopipe = NoneS

-----------------------------------------------------------------------------
(* Properties of the configuration and of the compiled arguments *)

Mutators ==
    {"set_properties", "forward_port", "remove_forwarding", "attach_cdrom",
     "detach_cdrom", "attach_drive", "detach_drive", "create_or_attach_drive"}

\* C5: every mutator of the configuration or of the attached resources,
\* called on a record found online, raises InvalidStateChange, returns
\* nothing, and changes neither the configuration and resource fields nor the
\* files.
C5_MutatorsRefusedOnline ==
    [][(out'.op \in Mutators /\ out'.probed = "online") =>
          /\ out'.exc = "InvalidStateChange"
          /\ out'.value = <<>>
          /\ SameOn(ConfigFields, rec, rec')
          /\ files' = files
      ]_vars

\* create_or_attach_drive was refused on an online record
C5_Witness ==
    /\ out.op = "create_or_attach_drive"
    /\ out.was = "online"
    /\ out.probed = "online"
    /\ out.exc = "InvalidStateChange"
    /\ rec.state = "online"
    /\ rec.drives = <<>>

\* the exceptions the compilation of the arguments raises
CompileErrors ==
    {"InvalidArgument", "LaunchDependencyMissing", "InvalidGenericDeviceType",
     "LimitReached"}

\* the fields of the forwarding rules of a record
FwdFields(r) ==
    UNION {{r.forwarding[k].protocol, r.forwarding[k].external_ip,
            r.forwarding[k].external_port, r.forwarding[k].internal_port} :
              k \in DOMAIN r.forwarding}

\* the free-form strings of a record, as the record holds them
FreeFormStrings(r) ==
    {VmId, r.bootorder, r.cpu, r.machine, r.rtc, r.vga, r.network, r.scsi,
     r.sound}
      \cup ({r.floppy} \ {NoneS})
      \cup {r.cdroms[k] : k \in DOMAIN r.cdroms}
      \cup {r.drives[k].path : k \in DOMAIN r.drives}
      \cup FwdFields(r)

\* the strings escaped while the first list of arguments is built
HeaderFields(r) ==
    {VmId, r.bootorder, r.cpu, r.machine, r.rtc, r.vga, r.network}
      \cup FwdFields(r)

\* the strings of a record in the form the escaping step is handed them:
\* image paths of CD-ROMs and drives made absolute, the SCSI model only on a
\* machine that is not ISA-only, the sound model never
EscapedFields(r) ==
    HeaderFields(r)
      \cup (IF r.machine # <<"i", "s", "a", "p", "c">> THEN {r.scsi} ELSE {})
      \cup ({r.floppy} \ {NoneS})
      \cup {abspath(r.cdroms[k]) : k \in DOMAIN r.cdroms}
      \cup {abspath(r.drives[k].path) : k \in DOMAIN r.drives}

\* C6: when a string escaped for the first list of arguments (VM id, boot
\* order, CPU, machine, RTC, VGA, network, forwarding fields) holds a
\* forbidden character, start() on an offline record raises InvalidArgument
\* and launches nothing; when any string holds one in the form in which it
\* is handed to the escaping step, start() launches nothing and raises
\* InvalidArgument or the error of an earlier check.
C6_ForbiddenCharacterStopsLaunch ==
    [][(out'.op = "start" /\ out'.probed = "offline") =>
          /\ (\E s \in HeaderFields(rec) : HasForbidden(s)) =>
                (out'.exc = "InvalidArgument" /\ out'.launched = NoPid)
          /\ (\E s \in EscapedFields(rec) : HasForbidden(s)) =>
                /\ out'.exc \in {"InvalidArgument", "LaunchDependencyMissing",
                                 "InvalidGenericDeviceType"}
                /\ out'.launched = NoPid
                /\ procs' = procs
      ]_vars

\* start() raised InvalidArgument for a CPU model with a comma
C6_Witness ==
    /\ out.op = "start"
    /\ out.probed = "offline"
    /\ out.exc = "InvalidArgument"
    /\ HasForbidden(rec.cpu)
    /\ out.launched = NoPid
    /\ rec.state = "offline"

\* C6 as stated: a forbidden character in any free-form string of the record
\* makes start() raise InvalidArgument
C6_AsStated ==
    [][(/\ out'.op = "start"
        /\ out'.probed = "offline"
        /\ \E s \in FreeFormStrings(rec) : HasForbidden(s)) =>
          (out'.exc = "InvalidArgument" /\ out'.launched = NoPid)
      ]_vars

\* C7 as stated: when the compilation of the arguments fails, ports,
\* audiopipe, log, pid and state are as before the call and no file was added
C7_AsStated ==
    [][(out'.op = "start" /\ out'.exc \in CompileErrors) =>
          /\ rec'.ports = rec.ports
          /\ rec'.audiopipe = rec.audiopipe
          /\ rec'.log = rec.log
          /\ rec'.pid = rec.pid
          /\ rec'.state = rec.state
          /\ files' \subseteq files
      ]_vars

\* C8 as stated: in a launched argument vector no string that comes from the
\* record holds a forbidden character
C8_AsStated ==
    (out.op = "start" /\ out.launched # NoPid) =>
        \A k \in DOMAIN out.argv :
            \A j \in DOMAIN out.argv[k].a : ~HasForbidden(out.argv[k].a[j])

\* the devices that take a unit of the IDE bus: the CD-ROMs and the drives
\* of type ide
IdeUnits(r) ==
    Len(r.cdroms) + Cardinality({k \in DOMAIN r.drives : r.drives[k].type = <<"i", "d", "e">>})

\* the devices of IDE class: the CD-ROMs and the drives of type ide or ahci
IdeClassDevices(r) ==
    Len(r.cdroms)
      + Cardinality({k \in DOMAIN r.drives : r.drives[k].type \in {<<"i", "d", "e">>, <<"a", "h", "c", "i">>}})

C10_DriveListIdempotent ==
    [][/\ (/\ out'.op = "attach_drive"
           /\ out'.probed = "offline"
           /\ \E k \in DOMAIN rec.drives : rec.drives[k].path = out'.arg[1]) =>
            (rec'.drives = rec.drives /\ out'.exc = "none")
       /\ (/\ out'.op = "detach_drive"
           /\ out'.probed = "offline"
           /\ ~\E k \in DOMAIN rec.drives : rec.drives[k].path = out'.arg[1]) =>
            (rec'.drives = rec.drives /\ out'.exc = "none")
      ]_vars

\* attach_drive was called with type AHCI for a path attached as ide: the
\* list still holds the one ide entry
C10_Witness ==
    /\ out.op = "attach_drive"
    /\ out.arg = <<ImgDotDot, <<"A", "H", "C", "I">>>>
    /\ out.exc = "none"
    /\ rec.drives = <<[path |-> ImgDotDot, type |-> <<"i", "d", "e">>]>>

-----------------------------------------------------------------------------
(* Properties of the forwarding rules and of set_properties *)

\* the tuple a forwarding rule was made from, and the tuple of a call of
\* forward_port(external_port, internal_port, protocol, external_ip)
FwdTuple(x) == <<x.protocol, x.external_ip, x.external_port, x.internal_port>>
ArgTuple(a) == <<lower(a[3]), a[4], a[1], a[2]>>

C12_AsStated ==
    [][(/\ out'.op = "forward_port"
        /\ out'.probed = "offline"
        /\ out'.exc = "none"
        /\ \A k \in DOMAIN rec.forwarding :
              FwdTuple(rec.forwarding[k]) # ArgTuple(out'.arg)) =>
          /\ out'.value \notin FwdIds(rec.forwarding)
          /\ Len(rec'.forwarding) = Len(rec.forwarding) + 1
      ]_vars

\* the twelve fields set_properties writes
PropertyFields ==
    {"memory", "cores", "cpu", "machine", "vga", "sound", "bootorder",
     "network", "scsi", "rtc", "floppy", "numa"}

\* C13: set_properties on an offline record with memory below 8388608, or
\* with fewer cores than 1 or more than the host has, raises InvalidArgument
\* and leaves the twelve properties as they were.
C13_MemoryAndCoresChecked ==
    [][(/\ out'.op = "set_properties"
        /\ out'.probed = "offline"
        /\ \/ out'.arg[1].memory < 8388608
           \/ out'.arg[1].cores < 1
           \/ out'.arg[1].cores > HostCpus) =>
          /\ out'.exc = "InvalidArgument"
          /\ SameOn(PropertyFields, rec, rec')
      ]_vars

\* more cores than the host has were refused, the properties set before are
\* in place
C13_Witness ==
    /\ out.op = "set_properties"
    /\ out.arg[1].cores = HostCpus + 1
    /\ out.exc = "InvalidArgument"
    /\ rec.machine = <<"q", "3", "5">>
    /\ rec.cores = HostCpus

\* a property dictionary with a value outside its domain
OutOfDomain(p) ==
    \/ p.vga \notin QEMUDevices_vga
    \/ p.machine \notin QEMUDevices_machine
    \/ p.sound \notin QEMUDevices_sound
    \/ p.network \notin QEMUDevices_network
    \/ p.scsi \notin QEMUDevices_scsi
    \/ p.rtc \notin QEMUDevices_rtc
    \/ p.cpu \notin QEMUDevices_cpu
    \/ \E k \in DOMAIN p.bootorder : p.bootorder[k] \notin {"a", "b", "c", "d", "n", "p"}
    \/ (p.floppy # NoneS /\ p.floppy \notin files)

\* C14 as stated: set_properties with a value outside its domain raises
\* InvalidArgument and changes nothing, and the stored cpu and rtc are in
\* the tables
C14_AsStated ==
    [][(/\ out'.op = "set_properties"
        /\ out'.probed = "offline") =>
          /\ OutOfDomain(out'.arg[1]) =>
                (out'.exc = "InvalidArgument" /\ SameOn(PropertyFields, rec, rec'))
          /\ rec'.cpu \in QEMUDevices_cpu
          /\ rec'.rtc \in QEMUDevices_rtc
      ]_vars

\* what an ISA-only machine does not accept
IsaViolation(r) ==
    \/ r.sound \notin {<<"a", "d", "l", "i", "b">>, <<"s", "b", "1", "6">>, <<"g", "u", "s">>}
    \/ r.network # <<"n", "e", "2", "k", "_", "i", "s", "a">>
    \/ r.vga \notin {<<"v", "g", "a">>, <<"c", "i", "r", "r", "u", "s">>}
    \/ r.cores > 1

\* a record nothing else than the checks of an ISA-only machine can stop
\* from compiling
CompilesOtherwise(r) ==
    /\ ~\E s \in EscapedFields(r) : HasForbidden(s)
    /\ r.floppy \in files \cup {NoneS}
    /\ r.sound \in {<<"a", "c", "9", "7">>, <<"a", "d", "l", "i", "b">>, <<"s", "b", "1", "6">>, <<"g", "u", "s">>, <<"h", "d", "a">>}
    /\ \A k \in DOMAIN r.cdroms : r.cdroms[k] \in files
    /\ \A k \in DOMAIN r.drives : r.drives[k].path \in files
    /\ IdeUnits(r) <= 2

\* C15: with machine type isapc, start() on an offline record fails with
\* InvalidGenericDeviceType when the sound model is not adlib, sb16 or gus,
\* or the network model is not ne2k_isa, or the VGA model is not vga or
\* cirrus, or there is more than one core (no string of the first argument
\* list holding a forbidden character); a record that nothing else stops
\* from compiling is launched with machine type pc or q35, whatever its
\* sound, network, VGA and cores, and with isapc when they are acceptable.
C15_IsaOnlyChecks ==
    [][(/\ out'.op = "start"
        /\ out'.probed = "offline"
        /\ ~\E s \in HeaderFields(rec) : HasForbidden(s)) =>
          /\ (rec.machine = <<"i", "s", "a", "p", "c">> /\ IsaViolation(rec)) =>
                (out'.exc = "InvalidGenericDeviceType" /\ out'.launched = NoPid)
          /\ (rec.machine \in {<<"p", "c">>, <<"q", "3", "5">>} /\ CompilesOtherwise(rec)) =>
                (out'.exc = "none" /\ out'.launched # NoPid)
          /\ (rec.machine = <<"i", "s", "a", "p", "c">> /\ ~IsaViolation(rec) /\ CompilesOtherwise(rec)) =>
                (out'.exc = "none" /\ out'.launched # NoPid)
      ]_vars

\* start() refused an ISA-only machine whose models are acceptable but which
\* has more than one core
C15_Witness ==
    /\ out.op = "start"
    /\ out.exc = "InvalidGenericDeviceType"
    /\ rec.machine = <<"i", "s", "a", "p", "c">>
    /\ rec.sound = <<"s", "b", "1", "6">>
    /\ rec.network = <<"n", "e", "2", "k", "_", "i", "s", "a">>
    /\ rec.vga = <<"c", "i", "r", "r", "u", "s">>
    /\ rec.cores > 1
    /\ out.launched = NoPid

-----------------------------------------------------------------------------
(* Properties of a successful and of a failed start() *)

\* the record r describes a running machine whose process is alive in p
Running(r, p) ==
    /\ r.state = "online"
    /\ r.pid # NoPid
    /\ p[r.pid] = "qemu"
    /\ r.audiopipe # NoneS
    /\ r.audiothrd

\* what every step keeps of a running machine whose process stays alive
StaysRunning ==
    /\ Running(rec', procs')
    /\ rec'.pid = rec.pid
    /\ (out'.op = "state" => out'.ret = "online")

\* a start() that returned without raising, its process being alive
StartedAlive ==
    /\ out'.op = "start"
    /\ out'.exc = "none"
    /\ out'.launched # NoPid
    /\ procs'[out'.launched] = "qemu"

C17_AsStated ==
    [][(out'.op = "start" /\ out'.probed = "offline") =>
          /\ (out'.exc # "none" => (rec'.state = "offline" /\ rec'.pid = NoPid))
          /\ (/\ out'.exc = "none"
              /\ out'.launched # NoPid
              /\ procs'[out'.launched] # "qemu") => rec'.state # "online"
      ]_vars

\* C18 as stated: a start() whose process exited with a status other than
\* zero during the settle interval raises VMLaunchException
C18_AsStated ==
    [][(out'.op = "start" /\ out'.exited = "nonzero") =>
          out'.exc = "VMLaunchException"
      ]_vars

\* C22 as stated: remove() raises nothing, leaves no running process of the
\* record, leaves the display disconnected and the id of the record is not
\* in the store afterwards
C22_AsStated ==
    [][(out'.op = "remove") =>
          /\ out'.exc = "none"
          /\ (rec.pid # NoPid => procs'[rec.pid] # "qemu")
          /\ ~disp'.connected
          /\ VmId \notin store'
      ]_vars

-----------------------------------------------------------------------------
(* Properties of the ports and of the offline transition *)

\* C23 as stated: the three ports of the record, which the allocator handed
\* out at creation or at a re-allocation, are mutually distinct
C23_AsStated ==
    /\ rec.ports.vnc # rec.ports.monitor
    /\ rec.ports.vnc # rec.ports.audio
    /\ rec.ports.monitor # rec.ports.audio

\* the ports of a record in the order in which __randomize_ports probes them
PortsInOrder(r) == <<r.ports.vnc, r.ports.monitor, r.ports.audio>>

\* C24 as stated: a start() that launches a process launches it with none of
\* the recorded ports its probes found occupied
C24_AsStated ==
    [][(out'.op = "start" /\ out'.launched # NoPid) =>
          \A i \in 1..Len(out'.probes) :
              out'.probes[i] =>
                  \A j \in 1..3 : PortsInOrder(rec')[j] # PortsInOrder(rec)[i]
      ]_vars

\* the offline transition applied to the current state
NowOffline == mark_offline(Call("mark_offline", <<>>, Faulty))

\* C25 as stated: after the offline transition, applied in any state, pid
\* and audiopipe are null, the audio relay flag is false, state is offline
\* and the display is disconnected; applying it again changes nothing
C25_AsStated ==
    /\ NowOffline.rec.pid = NoPid
    /\ NowOffline.rec.audiopipe = NoneS
    /\ ~NowOffline.rec.audiothrd
    /\ NowOffline.rec.state = "offline"
    /\ ~NowOffline.disp.connected
    /\ mark_offline(NowOffline) = NowOffline

\* the audio pipes that exist on the file system
PipeFiles == {TempName(k, <<".", "p", "i", "p", "e">>) : k \in 0..(MaxTemp - 1)} \cap files

\* C26 as stated: an offline record has no audiopipe and no audio pipe file
\* exists
C26_AsStated ==
    (rec.state = "offline") => (rec.audiopipe = NoneS /\ PipeFiles = {})

-----------------------------------------------------------------------------
(* Properties of operations that run concurrently *)

\* C27 as stated: exactly one audio relay thread is spawned in an online
\* session, so while the record is online no more than one has been spawned
\* since state online was committed, however the probes of the threads
\* interleave
C27_AsStated == (rec.state = "online") => thr.relays <= 1

\* C28 as stated: a start() launches a process only when no process
\* launched by another start() of the record is running, so one of two
\* racing calls is refused
C28_AsStated ==
    [][(out'.op = "start" /\ out'.launched # NoPid) =>
          \A p \in Pids : procs[p] # "qemu"
      ]_vars

-----------------------------------------------------------------------------
(* Properties of the operations that loop *)

\* C29 as stated: every connect() that has begun returns
C29_AsStated == (thr.pc[1] = "connect") ~> (thr.pc[1] # "connect")

\* the process the record names is running
Alive == rec.pid # NoPid /\ procs[rec.pid] = "qemu"

\* C30: wait() returns only from a probe that reported offline, leaving the
\* record offline; and if from some time on the process of the record is no
\* longer running, wait() does not stay in its loop, the waiting thread
\* being scheduled again and again
C30_WaitReturnsWhenOffline ==
    /\ [][(thr.pc[1] = "wait" /\ thr'.pc[1] = "idle") =>
             (out'.op = "wait" /\ out'.ret = "offline" /\ rec'.state = "offline")
         ]_vars
    /\ (<>[](~Alive)) => []<>(thr.pc[1] # "wait")

\* wait() returned from a probe that found the record online and its
\* process dead
C30_Witness ==
    /\ out.op = "wait"
    /\ thr.pc[1] = "idle"
    /\ out.was = "online"
    /\ out.found = "zombie"
    /\ out.ret = "offline"

-----------------------------------------------------------------------------
(* Properties of AudioOutput.read() *)

\* the number four bytes hold, least significant byte first
LittleEndian(b) == b[1] + 256 * b[2] + 65536 * b[3] + 16777216 * b[4]

\* C21: the container read() returns starts with the 44 bytes of a
\* RIFF/WAVE header whose RIFF length is the length of the container less 8
\* and whose data length is the number of bytes after the header, whatever
\* the buffer held
C21_LengthFieldsConsistent ==
    [][(out'.op = "read") =>
          /\ Len(out'.value) >= 44
          /\ SubSeq(out'.value, 1, 4) = <<82, 73, 70, 70>>
          /\ SubSeq(out'.value, 9, 12) = <<87, 65, 86, 69>>
          /\ SubSeq(out'.value, 37, 40) = <<100, 97, 116, 97>>
          /\ LittleEndian(SubSeq(out'.value, 5, 8)) = Len(out'.value) - 8
          /\ LittleEndian(SubSeq(out'.value, 41, 44)) = Len(out'.value) - 44
      ]_vars

\* a read() whose chunk began with a WAVE header, which was stripped: 4052
\* bytes follow the new header
C21_Witness ==
    /\ out.op = "read"
    /\ Len(out.value) = AUDIO_BLOCK_SIZE
    /\ LittleEndian(SubSeq(out.value, 41, 44)) = AUDIO_BLOCK_SIZE - 44
    /\ SubSeq(out.value, 45, 46) = <<5, 6>>

\* C19 as stated: read() on an empty buffer returns the 44 bytes of the
\* header, with a RIFF length of 36 and a data length of 0
C19_AsStated ==
    [][(out'.op = "read" /\ audio = <<>>) =>
          /\ Len(out'.value) = 44
          /\ SubSeq(out'.value, 5, 8) = <<36, 0, 0, 0>>
          /\ SubSeq(out'.value, 41, 44) = <<0, 0, 0, 0>>
      ]_vars

RECURSIVE Payloads(_)
\* the samples of the chunks of a buffer, in their order
Payloads(b) == IF b = <<>> THEN <<>> ELSE StripHeader(Head(b)) \o Payloads(Tail(b))

\* C20 as stated: the container read() returns begins, after its header,
\* with the samples of all chunks of the buffer in their order, and the
\* buffer is empty afterwards
C20_AsStated ==
    [][(out'.op = "read") =>
          /\ audio' = <<>>
          /\ Len(out'.value) >= 44 + Len(Payloads(audio))
          /\ SubSeq(out'.value, 45, 44 + Len(Payloads(audio))) = Payloads(audio)
      ]_vars

-----------------------------------------------------------------------------
(* Properties of the processes of a record *)

\* the QEMU processes launched for the record that are running
Running_Pids == {p \in Pids : procs[p] = "qemu"}

\* C31 as stated: at most one process launched for the record is running,
\* and none is while the record is offline
C31_AsStated ==
    /\ Cardinality(Running_Pids) <= 1
    /\ (rec.state = "offline") => (Running_Pids = {})

\* C40 as stated: a display that says it is connected has a client
C40_AsStated == disp.connected => disp.client

\* C33: a display without a client has its six input methods bound to the
\* method that does nothing, and a call of one of them raises nothing,
\* returns None and changes nothing
C33_NoClientNoOps ==
    /\ (~disp.client) => (disp.inputs = "noop")
    /\ [][/\ (~disp'.client) => (disp'.inputs = "noop")
          /\ (out'.op = "input" /\ ~disp.client) =>
                /\ out'.exc = "none"
                /\ out'.ret = "None"
                /\ UNCHANGED <<rec, procs, files, disp>>
         ]_vars

\* an input method was called on a display that lost its client to a client
\* error
C33_Witness ==
    /\ out.op = "input"
    /\ out.ret = "None"
    /\ ~disp.client
    /\ rec.state = "online"

\* C34: a state probe on an online record performs the offline transition
\* when the recorded pid belongs to a process without the record's id in its
\* command line (a reused pid, or a zombie, whose command line is empty) and
\* sends no signal then; the only signal a probe sends is SIGKILL to the
\* process of the record whose command line held the id and which was a
\* zombie when its status was read
C34_ProbeGuardsReusedPid ==
    [][(/\ out'.op = "state"
        /\ rec.state = "online"
        /\ rec.pid # NoPid) =>
          /\ (procs[rec.pid] \in {"other", "zombie"}) =>
                /\ rec'.state = "offline"
                /\ rec'.pid = NoPid
                /\ out'.signals = {}
                /\ procs' = procs
          /\ \A s \in out'.signals :
                /\ s = <<rec.pid, "SIGKILL">>
                /\ procs[rec.pid] = "qemu"
                /\ procs'[rec.pid] = "zombie"
                /\ rec'.state = "offline"
      ]_vars

\* a probe found the pid of an online record reused, sent nothing and
\* performed the offline transition
C34_Witness ==
    /\ out.op = "state"
    /\ out.was = "online"
    /\ out.found = "other"
    /\ out.signals = {}
    /\ out.ret = "offline"
    /\ \E p \in Pids : procs[p] = "other"

\* C34 as stated: the probe also kills the zombie it finds
C34_AsStated ==
    [][(/\ out'.op = "state"
        /\ rec.state = "online"
        /\ rec.pid # NoPid) =>
          /\ (procs[rec.pid] = "other") =>
                (rec'.state = "offline" /\ out'.signals = {})
          /\ (procs[rec.pid] = "zombie") =>
                /\ rec'.state = "offline"
                /\ <<rec.pid, "SIGKILL">> \in out'.signals
      ]_vars

\* C35 as stated: once no process launched for the record is running any
\* more, the relay thread eventually exits
C35_AsStated ==
    (<>[](Running_Pids = {})) => <>[](thr.pc[1] = "idle")

(* Properties of forward_port's validation *)

\* a port is the text of an integer from 1 to 65535, as int() reads it, with
\* no dot in it
PortInRange(p) ==
    /\ \A k \in 1..Len(p) : p[k] # "."
    /\ int_of(p).ok
    /\ ~int_of(p).neg
    /\ int_of(p).abs \in 1..65535

\* C36: forward_port on an offline record appends a rule only if the
\* external IP is an IPv4 or IPv6 literal, both ports are integers from 1 to
\* 65535 without a fractional part, and the protocol is tcp or udp in any
\* letter case; the rule holds the protocol in lower case; for any other
\* input it raises InvalidArgument and leaves the forwarding list unchanged
C36_ForwardValidates ==
    [][(out'.op = "forward_port") =>
          LET f == out'.arg
              valid == /\ validate_ip(f[4])
                       /\ PortInRange(f[1])
                       /\ PortInRange(f[2])
                       /\ lower(f[3]) \in {<<"t", "c", "p">>, <<"u", "d", "p">>}
          IN IF valid
             THEN /\ out'.exc = "none"
                  /\ \E k \in DOMAIN rec'.forwarding :
                        /\ FwdTuple(rec'.forwarding[k]) = ArgTuple(f)
                        /\ rec'.forwarding[k].id = out'.value
                  /\ \/ rec'.forwarding = rec.forwarding
                     \/ /\ Len(rec'.forwarding) = Len(rec.forwarding) + 1
                        /\ SubSeq(rec'.forwarding, 1, Len(rec.forwarding)) =
                              rec.forwarding
             ELSE /\ out'.exc = "InvalidArgument"
                  /\ rec'.forwarding = rec.forwarding
      ]_vars

\* forward_port was given the protocol in capitals and appended a tcp rule
C36_Witness ==
    /\ out.op = "forward_port"
    /\ out.arg[3] = <<"T", "C", "P">>
    /\ out.exc = "none"
    /\ rec.forwarding # <<>>
    /\ rec.forwarding[Len(rec.forwarding)].id = out.value
    /\ rec.forwarding[Len(rec.forwarding)].protocol = <<"t", "c", "p">>

\* C36 as stated: a rule is appended only if the protocol argument is
\* exactly tcp or udp
C36_AsStated ==
    [][(out'.op = "forward_port" /\ rec'.forwarding # rec.forwarding) =>
          /\ validate_ip(out'.arg[4])
          /\ PortInRange(out'.arg[1])
          /\ PortInRange(out'.arg[2])
          /\ out'.arg[3] \in {<<"t", "c", "p">>, <<"u", "d", "p">>}
      ]_vars

\* C37 as stated: a start() of a record whose only non-default configuration
\* is rules forward_port accepted never raises InvalidArgument
C37_AsStated ==
    [][(/\ out'.op = "start"
        /\ out'.probed = "offline"
        /\ rec.cdroms = <<>>
        /\ rec.drives = <<>>
        /\ \A f \in PropertyFields : rec[f] = DefaultProperties[f]) =>
          out'.exc # "InvalidArgument"
      ]_vars

(* Properties of the lists of a record *)

\* no two entries of a list are equal under f
NoDuplicates(s, f(_)) ==
    \A j, k \in DOMAIN s : f(s[j]) = f(s[k]) => j = k

\* the k-th smallest element of a set of numbers
Nth(K, k) == CHOOSE i \in K : Cardinality({m \in K : m < i}) = k - 1

C32_AsStated ==
    [][(/\ out'.op = "state"
        /\ rec.state = "online"
        /\ rec.pid # NoPid
        /\ procs[rec.pid] = "qemu") =>
          /\ rec'.state = "online"
          /\ rec'.pid = rec.pid
          /\ (rec.audiopipe \in files) => (rec.audiopipe \in files')
      ]_vars

\* C39 as stated: no configuration or attached-resource field changes in a
\* step that begins and ends with the record online
C39_AsStated ==
    [][(rec.state = "online" /\ rec'.state = "online") =>
          SameOn(ConfigFields, rec, rec')
      ]_vars

====
